---- MODULE Spec2Model ----
(***************************************************************************)
(* A model of package bytesurl (bytesurl.go, userinfo.go, values.go): the  *)
(* percent-encoding codec, the URL splitter (Parse / ParseRequestURI) and  *)
(* the serializers (Bytes / RequestURI).                                   *)
(*                                                                         *)
(* A []byte is a sequence of byte values 0..255.  A Go error is a record   *)
(* [kind, s]: the sentinel errors carry an empty s, an EscapeError carries *)
(* its text.  A *URL is a record with the fields of type URL and a field   *)
(* isNil for the nil pointer; a *Userinfo likewise.                        *)
(***************************************************************************)
EXTENDS Integers, Sequences, FiniteSets, TLC

VARIABLES op, arg, mode, url, err, out, ret, prev,
          pkg, heap, store, baseURL, refURL, newURL, values, withKey, withValue

vars == <<op, arg, mode, url, err, out, ret, prev,
          pkg, heap, store, baseURL, refURL, newURL, values, withKey, withValue>>

(* What the codec, the splitter and the serializers leave alone.           *)
instances ==
    <<pkg, heap, store, baseURL, refURL, newURL, values, withKey, withValue>>

----------------------------------------------------------------------------
(* Byte values of the characters the code names.                           *)

chSpace == 32
chHash == 35
chDollar == 36
chPercent == 37
chAmp == 38
chStar == 42
chPlus == 43
chComma == 44
chMinus == 45
chDot == 46
chSlash == 47
chZero == 48
chNine == 57
chColon == 58
chSemi == 59
chEqual == 61
chQuestion == 63
chAt == 64
chUpA == 65
chUpF == 70
chUpZ == 90
chUnderscore == 95
chLowA == 97
chLowF == 102
chLowZ == 122
chTilde == 126

(* bytesurl.go:25-39, the package-level byte slices.                       *)
(* The bytes of SlashByte and AsteriskByte are package-level storage that   *)
(* Parse and resolvePath hand out (bytesurl.go:347, 510), so what they     *)
(* hold is state; PackageBytes is what their declarations give them.       *)
PackageBytes == [SlashByte |-> <<chSlash>>, AsteriskByte |-> <<chStar>>]

EmptyByte == <<>>
SlashByte == pkg.SlashByte
DoubleSlash == <<chSlash, chSlash>>
TripleSlash == <<chSlash, chSlash, chSlash>>
FragmentByte == <<chHash>>
QuestionMarkByte == <<chQuestion>>
AsteriskByte == pkg.AsteriskByte
PercentByte == <<chPercent>>
EtaByte == <<chAt>>
ColonByte == <<chColon>>
EqualByte == <<chEqual>>
DotByte == <<chDot>>
DoubleDotByte == <<chDot, chDot>>

(* bytesurl.go:76-81, type encoding.                                       *)
encodePath == 1
encodeUserPassword == 2
encodeQueryComponent == 3
encodeFragment == 4

Modes == {encodePath, encodeUserPassword, encodeQueryComponent, encodeFragment}

(* Errors: bytesurl.go:17-22 and type EscapeError (bytesurl.go:84).        *)
NilErr == [kind |-> "nil", s |-> <<>>]
ErrProtocolScheme == [kind |-> "ErrProtocolScheme", s |-> <<>>]
ErrEmptyURL == [kind |-> "ErrEmptyURL", s |-> <<>>]
ErrInvalidRequestURI == [kind |-> "ErrInvalidRequestURI", s |-> <<>>]
ErrHexadeciamlEscape == [kind |-> "ErrHexadeciamlEscape", s |-> <<>>]
EscapeError(s) == [kind |-> "EscapeError", s |-> s]

----------------------------------------------------------------------------
(* Package bytes, as far as the code uses it.                              *)

(* A local variable: x is evaluated once and F applied to its value.       *)
Let(x, F(_)) == CHOOSE r \in {F(v) : v \in {x}} : TRUE

(* s[i:] and s[i:j] with Go's 0-based, half-open indices.                  *)
SliceFrom(s, i) == SubSeq(s, i + 1, Len(s))
Slice(s, i, j) == SubSeq(s, i + 1, j)

HasPrefix(s, p) == Len(s) >= Len(p) /\ SubSeq(s, 1, Len(p)) = p

(* bytes.Index / bytes.LastIndex: 0-based position of the first / last     *)
(* occurrence of sep in s, -1 when there is none.                          *)
Occurrences(s, sep) ==
    {i \in 0..(Len(s) - Len(sep)) : Slice(s, i, i + Len(sep)) = sep}

Min(S) == CHOOSE x \in S : \A y \in S : x <= y
Max(S) == CHOOSE x \in S : \A y \in S : x >= y

Index(s, sep) ==
    Let(Occurrences(s, sep), LAMBDA occ : IF occ = {} THEN -1 ELSE Min(occ))
LastIndex(s, sep) ==
    Let(Occurrences(s, sep), LAMBDA occ : IF occ = {} THEN -1 ELSE Max(occ))
Contains(s, sep) == Index(s, sep) >= 0

(* bytes.ToLower on ASCII: getscheme lets only ASCII bytes into a scheme.  *)
LowerByte(c) == IF chUpA <= c /\ c <= chUpZ THEN c + (chLowA - chUpA) ELSE c
ToLower_identity(s) == s

ToLower(s) == [i \in 1..Len(s) |-> LowerByte(s[i])]

----------------------------------------------------------------------------
(* The escaper and the unescaper.                                          *)

ishex(c) ==
    \/ chZero <= c /\ c <= chNine
    \/ chLowA <= c /\ c <= chLowF
    \/ chUpA <= c /\ c <= chUpF

unhex(c) ==
    IF chZero <= c /\ c <= chNine THEN c - chZero
    ELSE IF chLowA <= c /\ c <= chLowF THEN c - chLowA + 10
    ELSE IF chUpA <= c /\ c <= chUpF THEN c - chUpA + 10
    ELSE 0

Reserved ==
    {chDollar, chAmp, chPlus, chComma, chSlash, chColon, chSemi, chEqual,
     chQuestion, chAt}

shouldEscape_plusLiteral(c, m) ==
    IF \/ chUpA <= c /\ c <= chUpZ
       \/ chLowA <= c /\ c <= chLowZ
       \/ chZero <= c /\ c <= chNine
    THEN FALSE
    ELSE IF c \in {chMinus, chUnderscore, chDot, chTilde} THEN FALSE
    ELSE IF c = chPlus THEN FALSE
    ELSE IF c \in Reserved /\ m = encodePath THEN c = chQuestion
    ELSE IF c \in Reserved /\ m = encodeUserPassword
         THEN c \in {chAt, chSlash, chQuestion, chColon}
    ELSE IF c \in Reserved /\ m = encodeQueryComponent THEN TRUE
    ELSE IF c \in Reserved /\ m = encodeFragment THEN FALSE
    ELSE TRUE

shouldEscape_userColonLiteral(c, m) ==
    IF \/ chUpA <= c /\ c <= chUpZ
       \/ chLowA <= c /\ c <= chLowZ
       \/ chZero <= c /\ c <= chNine
    THEN FALSE
    ELSE IF c \in {chMinus, chUnderscore, chDot, chTilde} THEN FALSE
    ELSE IF c \in Reserved /\ m = encodePath THEN c = chQuestion
    ELSE IF c \in Reserved /\ m = encodeUserPassword
         THEN c \in {chAt, chSlash, chQuestion}
    ELSE IF c \in Reserved /\ m = encodeQueryComponent THEN TRUE
    ELSE IF c \in Reserved /\ m = encodeFragment THEN FALSE
    ELSE TRUE

shouldEscape(c, m) ==
    IF \/ chUpA <= c /\ c <= chUpZ
       \/ chLowA <= c /\ c <= chLowZ
       \/ chZero <= c /\ c <= chNine
    THEN FALSE
    ELSE IF c \in {chMinus, chUnderscore, chDot, chTilde} THEN FALSE
    ELSE IF c \in Reserved /\ m = encodePath THEN c = chQuestion
    ELSE IF c \in Reserved /\ m = encodeUserPassword
         THEN c \in {chAt, chSlash, chQuestion, chColon}
    ELSE IF c \in Reserved /\ m = encodeQueryComponent THEN TRUE
    ELSE IF c \in Reserved /\ m = encodeFragment THEN FALSE
    ELSE TRUE

(* "0123456789ABCDEF"                                                      *)
upperhex == <<48, 49, 50, 51, 52, 53, 54, 55, 56, 57, 65, 66, 67, 68, 69, 70>>

(* The first loop of escape: how many bytes become '+', how many "%XX".    *)
spaceCount(s, m) ==
    Cardinality({i \in 1..Len(s) :
        shouldEscape(s[i], m) /\ s[i] = chSpace /\ m = encodeQueryComponent})
hexCount(s, m) ==
    Cardinality({i \in 1..Len(s) :
        shouldEscape(s[i], m) /\ ~(s[i] = chSpace /\ m = encodeQueryComponent)})

(* The second loop of escape, from 1-based position i on.                  *)
RECURSIVE escapeLoop(_, _, _)
escapeLoop(s, i, m) ==
    IF i > Len(s) THEN <<>>
    ELSE LET c == s[i]
             t == IF c = chSpace /\ m = encodeQueryComponent THEN <<chPlus>>
                  ELSE IF shouldEscape(c, m)
                       THEN <<chPercent, upperhex[(c \div 16) + 1], upperhex[(c % 16) + 1]>>
                  ELSE <<c>>
         IN  t \o escapeLoop(s, i + 1, m)

escape(s, m) ==
    IF spaceCount(s, m) = 0 /\ hexCount(s, m) = 0 THEN s
    ELSE escapeLoop(s, 1, m)

QueryEscape_asPath(b) == escape(b, encodePath)

QueryEscape(b) == escape(b, encodeQueryComponent)

(* The first loop of unescape, from 1-based position i on: the position of *)
(* the first '%' not followed by two hex digits (0 when there is none),    *)
(* the number n of '%' seen and hasPlus.                                   *)
RECURSIVE unescapeScan(_, _, _, _, _)
unescapeScan(s, i, m, n, hasPlus) ==
    IF i > Len(s) THEN [bad |-> 0, n |-> n, hasPlus |-> hasPlus]
    ELSE IF s[i] = chPercent
         THEN IF i + 1 >= Len(s) \/ ~ishex(s[i + 1]) \/ ~ishex(s[i + 2])
              THEN [bad |-> i, n |-> n + 1, hasPlus |-> hasPlus]
              ELSE unescapeScan(s, i + 3, m, n + 1, hasPlus)
    ELSE IF s[i] = chPlus
         THEN unescapeScan(s, i + 1, m, n, m = encodeQueryComponent)
    ELSE unescapeScan(s, i + 1, m, n, hasPlus)

RECURSIVE unescapeLoop_keepPlus(_, _, _)
unescapeLoop_keepPlus(s, i, m) ==
    IF i > Len(s) THEN <<>>
    ELSE IF s[i] = chPercent
         THEN <<(unhex(s[i + 1]) * 16 + unhex(s[i + 2])) % 256>>
              \o unescapeLoop_keepPlus(s, i + 3, m)
    ELSE <<s[i]>> \o unescapeLoop_keepPlus(s, i + 1, m)

(* The second loop of unescape.                                            *)
RECURSIVE unescapeLoop(_, _, _)
unescapeLoop(s, i, m) ==
    IF i > Len(s) THEN <<>>
    ELSE IF s[i] = chPercent
         THEN <<(unhex(s[i + 1]) * 16 + unhex(s[i + 2])) % 256>>
              \o unescapeLoop(s, i + 3, m)
    ELSE IF s[i] = chPlus
         THEN <<IF m = encodeQueryComponent THEN chSpace ELSE chPlus>>
              \o unescapeLoop(s, i + 1, m)
    ELSE <<s[i]>> \o unescapeLoop(s, i + 1, m)

unescape_wholeTail(s, m) ==
    Let(unescapeScan(s, 1, m, 0, FALSE), LAMBDA sc :
        IF sc.bad # 0
        THEN [b |-> EmptyByte, err |-> EscapeError(SliceFrom(s, sc.bad - 1))]
        ELSE IF sc.n = 0 /\ ~sc.hasPlus THEN [b |-> s, err |-> NilErr]
        ELSE [b |-> unescapeLoop(s, 1, m), err |-> NilErr])

(* unescape returns (bytes, error) as the record [b, err].                 *)
unescape(s, m) ==
    Let(unescapeScan(s, 1, m, 0, FALSE), LAMBDA sc :
        LET tail == SliceFrom(s, sc.bad - 1) IN
        IF sc.bad # 0
        THEN [b |-> EmptyByte,
              err |-> EscapeError(IF Len(tail) > 3 THEN Slice(tail, 0, 3) ELSE tail)]
        ELSE IF sc.n = 0 /\ ~sc.hasPlus THEN [b |-> s, err |-> NilErr]
        ELSE [b |-> unescapeLoop(s, 1, m), err |-> NilErr])

QueryUnescape(s) == unescape(s, encodeQueryComponent)

----------------------------------------------------------------------------
(* Userinfo (userinfo.go).                                                 *)

NilUser ==
    [isNil |-> TRUE, username |-> EmptyByte, password |-> EmptyByte,
     passwordSet |-> FALSE]

User(username) ==
    [isNil |-> FALSE, username |-> username, password |-> EmptyByte,
     passwordSet |-> FALSE]

UserPassword(username, password) ==
    [isNil |-> FALSE, username |-> username, password |-> password,
     passwordSet |-> TRUE]

UserinfoBytes_pathMode(u) ==
    escape(u.username, encodePath)
    \o (IF u.passwordSet THEN ColonByte \o escape(u.password, encodePath) ELSE <<>>)

UserinfoBytes(u) ==
    escape(u.username, encodeUserPassword)
    \o (IF u.passwordSet
        THEN ColonByte \o escape(u.password, encodeUserPassword)
        ELSE <<>>)

----------------------------------------------------------------------------
(* URL and the splitter.                                                   *)

(* new(URL): every field zero.                                             *)
NewURL ==
    [isNil |-> FALSE, Scheme |-> EmptyByte, Opaque |-> EmptyByte,
     User |-> NilUser, Host |-> EmptyByte, Path |-> EmptyByte,
     RawQuery |-> EmptyByte, Fragment |-> EmptyByte]

(* The nil *URL.                                                           *)
NilURL == [NewURL EXCEPT !.isNil = TRUE]

(* type Error and the nil error.                                           *)
Error(o, u, e) == [Op |-> o, URL |-> u, Err |-> e]
NoError == [Op |-> "", URL |-> EmptyByte, Err |-> NilErr]

(* getscheme returns (scheme, path, err) as a record; i is 0-based.        *)
RECURSIVE getschemeLoop(_, _)
getschemeLoop(rawurl, i) ==
    IF i >= Len(rawurl)
    THEN [scheme |-> EmptyByte, path |-> rawurl, err |-> NilErr]
    ELSE LET c == rawurl[i + 1] IN
         IF (chLowA <= c /\ c <= chLowZ) \/ (chUpA <= c /\ c <= chUpZ)
         THEN getschemeLoop(rawurl, i + 1)
         ELSE IF (chZero <= c /\ c <= chNine) \/ c = chPlus \/ c = chMinus \/ c = chDot
         THEN IF i = 0
              THEN [scheme |-> EmptyByte, path |-> rawurl, err |-> NilErr]
              ELSE getschemeLoop(rawurl, i + 1)
         ELSE IF c = chColon
         THEN IF i = 0
              THEN [scheme |-> EmptyByte, path |-> EmptyByte, err |-> ErrProtocolScheme]
              ELSE [scheme |-> Slice(rawurl, 0, i), path |-> SliceFrom(rawurl, i + 1),
                    err |-> NilErr]
         ELSE [scheme |-> EmptyByte, path |-> rawurl, err |-> NilErr]

getscheme_keepColon(rawurl) ==
    Let(getschemeLoop(rawurl, 0), LAMBDA r :
        IF r.scheme # EmptyByte THEN [r EXCEPT !.path = ColonByte \o r.path] ELSE r)

getscheme(rawurl) == getschemeLoop(rawurl, 0)

(* split returns the pair <<t, u>>.                                        *)
split(s, c, cutc) ==
    Let(Index(s, c), LAMBDA i :
        IF i < 0 THEN <<s, EmptyByte>>
        ELSE IF cutc THEN <<Slice(s, 0, i), SliceFrom(s, i + Len(c))>>
        ELSE <<Slice(s, 0, i), SliceFrom(s, i)>>)

(* The userinfo branch of parseAuthority (bytesurl.go:399-414), for the    *)
(* position i of the '@' that ends the userinfo.                           *)
parseUserinfo(authority, i) ==
    LET userinfo == Slice(authority, 0, i)
        host == SliceFrom(authority, i + 1)
    IN  IF Index(userinfo, ColonByte) < 0
        THEN Let(unescape(userinfo, encodeUserPassword), LAMBDA whole :
                 IF whole.err # NilErr
                 THEN [user |-> NilUser, host |-> host, err |-> whole.err]
                 ELSE [user |-> User(whole.b), host |-> host, err |-> NilErr])
        ELSE Let(split(userinfo, ColonByte, TRUE), LAMBDA up :
             Let(unescape(up[1], encodeUserPassword), LAMBDA username :
             Let(unescape(up[2], encodeUserPassword), LAMBDA password :
                 IF username.err # NilErr
                 THEN [user |-> NilUser, host |-> host, err |-> username.err]
                 ELSE IF password.err # NilErr
                 THEN [user |-> NilUser, host |-> host, err |-> password.err]
                 ELSE [user |-> UserPassword(username.b, password.b), host |-> host,
                       err |-> NilErr])))

parseAuthority_firstAt(authority) ==
    Let(Index(authority, EtaByte), LAMBDA i :
        IF i < 0 THEN [user |-> NilUser, host |-> authority, err |-> NilErr]
        ELSE parseUserinfo(authority, i))

(* parseAuthority returns (user, host, err) as a record.                   *)
parseAuthority(authority) ==
    Let(LastIndex(authority, EtaByte), LAMBDA i :
        IF i < 0 THEN [user |-> NilUser, host |-> authority, err |-> NilErr]
        ELSE parseUserinfo(authority, i))

takesAuthority_noTriple(scheme, rest, viaRequest) ==
    /\ (scheme # EmptyByte \/ ~viaRequest)
    /\ HasPrefix(rest, DoubleSlash)

(* Whether parse takes the "//authority" branch (bytesurl.go:372), for the *)
(* scheme found and the rest left after the query is cut off.              *)
takesAuthority(scheme, rest, viaRequest) ==
    /\ (scheme # EmptyByte \/ (~viaRequest /\ ~HasPrefix(rest, TripleSlash)))
    /\ HasPrefix(rest, DoubleSlash)

(* bytes.Contains(url.Host, PercentByte) (bytesurl.go:379).                *)
hostHasEscape_never(host) == FALSE

hostHasEscape(host) == Contains(host, PercentByte)

(* parse returns (url, err) as a record; label Error is parseFail.         *)
parseFail(rawurl, e) == [url |-> NilURL, err |-> Error("parse", rawurl, e)]

(* parse from bytesurl.go:372 on: url holds Scheme and RawQuery, rest is    *)
(* what is left of rawurl.                                                 *)
parseHier(rawurl, viaRequest, url0, rest) ==
    IF takesAuthority(url0.Scheme, rest, viaRequest)
    THEN Let(split(SliceFrom(rest, 2), SlashByte, FALSE), LAMBDA ar :
         Let(parseAuthority(ar[1]), LAMBDA pa :
             IF pa.err # NilErr THEN parseFail(rawurl, pa.err)
             ELSE IF hostHasEscape(pa.host)
             THEN parseFail(rawurl, ErrHexadeciamlEscape)
             ELSE Let(unescape(ar[2], encodePath), LAMBDA path :
                  IF path.err # NilErr THEN parseFail(rawurl, path.err)
                  ELSE [url |-> [url0 EXCEPT !.User = pa.user, !.Host = pa.host,
                                             !.Path = path.b],
                        err |-> NoError])))
    ELSE Let(unescape(rest, encodePath), LAMBDA path :
             IF path.err # NilErr THEN parseFail(rawurl, path.err)
             ELSE [url |-> [url0 EXCEPT !.Path = path.b], err |-> NoError])

parse(rawurl, viaRequest) ==
    IF rawurl = EmptyByte /\ viaRequest THEN parseFail(rawurl, ErrEmptyURL)
    ELSE IF rawurl = AsteriskByte
    THEN [url |-> [NewURL EXCEPT !.Path = AsteriskByte], err |-> NoError]
    ELSE Let(getscheme(rawurl), LAMBDA gs :
         IF gs.err # NilErr THEN parseFail(rawurl, gs.err)
         ELSE Let(split(gs.path, QuestionMarkByte, TRUE), LAMBDA sq :
              Let([NewURL EXCEPT !.Scheme = ToLower(gs.scheme), !.RawQuery = sq[2]],
                  LAMBDA url0 :
                  IF ~HasPrefix(sq[1], SlashByte) /\ url0.Scheme # EmptyByte
                  THEN [url |-> [url0 EXCEPT !.Opaque = sq[1]], err |-> NoError]
                  ELSE IF ~HasPrefix(sq[1], SlashByte) /\ viaRequest
                  THEN parseFail(rawurl, ErrInvalidRequestURI)
                  ELSE parseHier(rawurl, viaRequest, url0, sq[1]))))

Parse(rawurl) ==
    Let(split(rawurl, FragmentByte, TRUE), LAMBDA uf :
    Let(parse(uf[1], FALSE), LAMBDA r :
        IF r.err # NoError THEN [url |-> NilURL, err |-> r.err]
        ELSE IF uf[2] = EmptyByte THEN r
        ELSE Let(unescape(uf[2], encodeFragment), LAMBDA frag :
                 IF frag.err # NilErr
                 THEN [url |-> NilURL, err |-> Error("parse", rawurl, frag.err)]
                 ELSE [url |-> [r.url EXCEPT !.Fragment = frag.b], err |-> NoError])))

ParseRequestURI_permissive(rawurl) == parse(rawurl, FALSE)

ParseRequestURI(rawurl) == parse(rawurl, TRUE)

----------------------------------------------------------------------------
(* The serializers.                                                        *)

Bytes(u) ==
    (IF u.Scheme # EmptyByte THEN u.Scheme \o <<chColon>> ELSE <<>>)
    \o (IF u.Opaque # EmptyByte THEN u.Opaque
        ELSE (IF u.Scheme # EmptyByte \/ u.Host # EmptyByte \/ ~u.User.isNil
              THEN DoubleSlash
                   \o (IF ~u.User.isNil THEN UserinfoBytes(u.User) \o <<chAt>> ELSE <<>>)
                   \o (IF u.Host # EmptyByte THEN u.Host ELSE <<>>)
              ELSE <<>>)
             \o (IF u.Path # EmptyByte /\ u.Path[1] # chSlash /\ u.Host # EmptyByte
                 THEN <<chSlash>> ELSE <<>>)
             \o escape(u.Path, encodePath))
    \o (IF u.RawQuery # EmptyByte THEN <<chQuestion>> \o u.RawQuery ELSE <<>>)
    \o (IF u.Fragment # EmptyByte
        THEN <<chHash>> \o escape(u.Fragment, encodeFragment) ELSE <<>>)

RequestURI_pathFirst(u) ==
    (IF u.Path # EmptyByte THEN escape(u.Path, encodePath)
     ELSE IF u.Opaque = EmptyByte THEN SlashByte
     ELSE IF HasPrefix(u.Opaque, DoubleSlash)
          THEN (u.Scheme \o ColonByte) \o u.Opaque
          ELSE u.Opaque)
    \o (IF u.RawQuery # EmptyByte THEN QuestionMarkByte \o u.RawQuery ELSE <<>>)

RequestURI(u) ==
    (IF u.Opaque = EmptyByte
     THEN Let(escape(u.Path, encodePath), LAMBDA escaped :
              IF escaped = EmptyByte THEN SlashByte ELSE escaped)
     ELSE IF HasPrefix(u.Opaque, DoubleSlash)
          THEN (u.Scheme \o ColonByte) \o u.Opaque
          ELSE u.Opaque)
    \o (IF u.RawQuery # EmptyByte THEN QuestionMarkByte \o u.RawQuery ELSE <<>>)

----------------------------------------------------------------------------
(* Reference resolution.                                                   *)

(* bytes.Split, bytes.Join and bytes.TrimLeft, for a non-empty separator   *)
(* and a cutset given as a set of bytes.                                   *)
RECURSIVE Split(_, _)
Split(s, sep) ==
    Let(Index(s, sep), LAMBDA i :
        IF i < 0 THEN <<s>>
        ELSE <<Slice(s, 0, i)>> \o Split(SliceFrom(s, i + Len(sep)), sep))

RECURSIVE Join(_, _)
Join(a, sep) ==
    IF a = <<>> THEN <<>>
    ELSE IF Len(a) = 1 THEN a[1]
    ELSE a[1] \o sep \o Join(Tail(a), sep)

RECURSIVE TrimLeft(_, _)
TrimLeft(s, cutset) ==
    IF s # <<>> /\ s[1] \in cutset THEN TrimLeft(Tail(s), cutset) ELSE s

RECURSIVE resolveLoop_dropOnly(_, _, _)
resolveLoop_dropOnly(src, i, dst) ==
    IF i > Len(src) THEN dst
    ELSE IF src[i] = DotByte \/ src[i] = DoubleDotByte
    THEN resolveLoop_dropOnly(src, i + 1, dst)
    ELSE resolveLoop_dropOnly(src, i + 1, Append(dst, src[i]))

(* The loop of resolvePath over src[i..], dst being what is kept so far.   *)
RECURSIVE resolveLoop(_, _, _)
resolveLoop(src, i, dst) ==
    IF i > Len(src) THEN dst
    ELSE IF src[i] = DotByte THEN resolveLoop(src, i + 1, dst)
    ELSE IF src[i] = DoubleDotByte
    THEN resolveLoop(src, i + 1,
                     IF Len(dst) > 0 THEN SubSeq(dst, 1, Len(dst) - 1) ELSE dst)
    ELSE resolveLoop(src, i + 1, Append(dst, src[i]))

resolveBuffer_refOnly(base, ref) == ref

(* What resolvePath writes to its buffer before it splits it.              *)
resolveBuffer(base, ref) ==
    IF ref = EmptyByte THEN base
    ELSE IF ref[1] # chSlash
    THEN Slice(base, 0, LastIndex(base, SlashByte) + 1) \o ref
    ELSE ref

resolvePath_keepDots(base, ref) ==
    Let(resolveBuffer(base, ref), LAMBDA buffer :
        IF Len(buffer) = 0 THEN EmptyByte
        ELSE SlashByte \o TrimLeft(buffer, {chSlash}))

resolvePath_noTrim(base, ref) ==
    Let(resolveBuffer(base, ref), LAMBDA buffer :
        IF Len(buffer) = 0 THEN EmptyByte
        ELSE
        Let(Split(buffer, SlashByte), LAMBDA src :
        Let(resolveLoop(src, 1, <<>>), LAMBDA kept :
        Let(IF src[Len(src)] = DotByte \/ src[Len(src)] = DoubleDotByte
            THEN Append(kept, EmptyByte) ELSE kept, LAMBDA dst :
            SlashByte \o Join(dst, SlashByte)))))

resolvePath_rootWhenEmpty(base, ref) ==
    Let(resolveBuffer(base, ref), LAMBDA buffer :
        Let(Split(buffer, SlashByte), LAMBDA src :
        Let(resolveLoop(src, 1, <<>>), LAMBDA kept :
        Let(IF src[Len(src)] = DotByte \/ src[Len(src)] = DoubleDotByte
            THEN Append(kept, EmptyByte) ELSE kept, LAMBDA dst :
            SlashByte \o TrimLeft(Join(dst, SlashByte), {chSlash})))))

resolvePath(base, ref) ==
    Let(resolveBuffer(base, ref), LAMBDA buffer :
        IF Len(buffer) = 0 THEN EmptyByte
        ELSE Let(Split(buffer, SlashByte), LAMBDA src :
             Let(resolveLoop(src, 1, <<>>), LAMBDA kept :
             Let(IF src[Len(src)] = DotByte \/ src[Len(src)] = DoubleDotByte
                 THEN Append(kept, EmptyByte) ELSE kept, LAMBDA dst :
                 SlashByte \o TrimLeft(Join(dst, SlashByte), {chSlash})))))

IsAbs(u) == u.Scheme # EmptyByte

(* The value of the local url when ResolveReference returns its address.   *)
ResolveReference_fragmentAlways(u, ref) ==
    Let(IF ref.Scheme = EmptyByte THEN [ref EXCEPT !.Scheme = u.Scheme] ELSE ref,
        LAMBDA url0 :
        IF ref.Scheme # EmptyByte \/ ref.Host # EmptyByte \/ ~ref.User.isNil
        THEN [url0 EXCEPT !.Path = resolvePath(ref.Path, EmptyByte)]
        ELSE IF ref.Opaque # EmptyByte
        THEN [url0 EXCEPT !.User = NilUser, !.Host = EmptyByte, !.Path = EmptyByte]
        ELSE [url0 EXCEPT
                 !.RawQuery = IF ref.Path = EmptyByte /\ ref.RawQuery = EmptyByte
                              THEN u.RawQuery ELSE @,
                 !.Fragment = IF ref.Path = EmptyByte /\ ref.Fragment = EmptyByte
                              THEN u.Fragment ELSE @,
                 !.Host = u.Host,
                 !.User = u.User,
                 !.Path = resolvePath(u.Path, ref.Path)])

ResolveReference(u, ref) ==
    Let(IF ref.Scheme = EmptyByte THEN [ref EXCEPT !.Scheme = u.Scheme] ELSE ref,
        LAMBDA url0 :
        IF ref.Scheme # EmptyByte \/ ref.Host # EmptyByte \/ ~ref.User.isNil
        THEN [url0 EXCEPT !.Path = resolvePath(ref.Path, EmptyByte)]
        ELSE IF ref.Opaque # EmptyByte
        THEN [url0 EXCEPT !.User = NilUser, !.Host = EmptyByte, !.Path = EmptyByte]
        ELSE [url0 EXCEPT
                 !.RawQuery = IF ref.Path = EmptyByte /\ ref.RawQuery = EmptyByte
                              THEN u.RawQuery ELSE @,
                 !.Fragment = IF /\ ref.Path = EmptyByte
                                 /\ ref.RawQuery = EmptyByte
                                 /\ ref.Fragment = EmptyByte
                              THEN u.Fragment ELSE @,
                 !.Host = u.Host,
                 !.User = u.User,
                 !.Path = resolvePath(u.Path, ref.Path)])

(* Where the bytes of a returned Path are stored: in the storage of a      *)
(* package-level slice, or in storage of the call (its argument's bytes or *)
(* bytes it allocated).  append(SlashByte, tail...) returns SlashByte's    *)
(* own storage when tail is empty, a package-level slice having no spare   *)
(* capacity, and new storage otherwise.                                    *)
parsePathStore(rawurl) ==
    IF rawurl = AsteriskByte THEN "AsteriskByte" ELSE "call"

ParsePathStore(rawurl) == parsePathStore(split(rawurl, FragmentByte, TRUE)[1])

resolvePathStore(base, ref) ==
    Let(resolvePath(base, ref), LAMBDA p :
        IF Len(p) = 0 THEN "EmptyByte"
        ELSE IF Len(p) = Len(SlashByte) THEN "SlashByte"
        ELSE "call")

ResolveReferencePathStore(u, ref) ==
    IF ref.Scheme # EmptyByte \/ ref.Host # EmptyByte \/ ~ref.User.isNil
    THEN resolvePathStore(ref.Path, EmptyByte)
    ELSE IF ref.Opaque # EmptyByte THEN "EmptyByte"
    ELSE resolvePathStore(u.Path, ref.Path)

(* The URL instances: m.heap[p] is the URL at address p and m.store[p]     *)
(* where the bytes of its Path are stored.  New appends a new instance.    *)
Memory(h, s) == [heap |-> h, store |-> s]

New(m, url0, pathStore) ==
    [heap |-> Append(m.heap, url0), store |-> Append(m.store, pathStore),
     ptr |-> Len(m.heap) + 1]

(* ResolveReference on the instances at u and ref: the local url is a copy *)
(* of *ref, and returning its address makes it a new instance.             *)
ResolveReferenceAt_throughRef(m, u, ref) ==
    [heap |-> [m.heap EXCEPT ![ref] = ResolveReference(m.heap[u], m.heap[ref])],
     store |-> [m.store EXCEPT
                   ![ref] = ResolveReferencePathStore(m.heap[u], m.heap[ref])],
     ptr |-> ref]

ResolveReferenceAt(m, u, ref) ==
    New(m, ResolveReference(m.heap[u], m.heap[ref]),
        ResolveReferencePathStore(m.heap[u], m.heap[ref]))

(* Parse and ParseRequestURI with the instance they allocate; ptr 0 is the *)
(* nil URL they return with an error.                                      *)
ParseAt(m, rawurl) ==
    Let(Parse(rawurl), LAMBDA r :
        IF r.err # NoError
        THEN [heap |-> m.heap, store |-> m.store, ptr |-> 0, err |-> r.err]
        ELSE Let(New(m, r.url, ParsePathStore(rawurl)), LAMBDA n :
                 [heap |-> n.heap, store |-> n.store, ptr |-> n.ptr,
                  err |-> NoError]))

ParseRequestURIAt(m, rawurl) ==
    Let(ParseRequestURI(rawurl), LAMBDA r :
        IF r.err # NoError
        THEN [heap |-> m.heap, store |-> m.store, ptr |-> 0, err |-> r.err]
        ELSE Let(New(m, r.url, parsePathStore(rawurl)), LAMBDA n :
                 [heap |-> n.heap, store |-> n.store, ptr |-> n.ptr,
                  err |-> NoError]))

(* The method URL.Parse: Parse(ref), then ResolveReference; refurl is the  *)
(* instance Parse returned.                                                *)
URLParseAt(m, u, ref) ==
    Let(ParseAt(m, ref), LAMBDA r :
        IF r.err # NoError
        THEN [heap |-> m.heap, store |-> m.store, ptr |-> 0, refurl |-> 0,
              err |-> r.err]
        ELSE Let(ResolveReferenceAt(Memory(r.heap, r.store), u, r.ptr), LAMBDA n :
                 [heap |-> n.heap, store |-> n.store, ptr |-> n.ptr,
                  refurl |-> r.ptr, err |-> NoError]))

----------------------------------------------------------------------------
(* Values (values.go): a map from keys to sequences of values.  v.m is a   *)
(* function on the keys present; a nil map has none.                       *)
NoEntries == [k \in {} |-> <<>>]

NilValues == [isNil |-> TRUE, m |-> NoEntries]
NewValues == [isNil |-> FALSE, m |-> NoEntries]

(* v[key], the zero value (no values) when key is absent.                  *)
Lookup(v, key) == IF key \in DOMAIN v.m THEN v.m[key] ELSE <<>>

(* v[key] = vs                                                             *)
Store(v, key, vs) ==
    [v EXCEPT !.m = [k \in DOMAIN v.m \cup {key} |-> IF k = key THEN vs ELSE v.m[k]]]

Get_lastValue(v, key) ==
    IF v.isNil THEN EmptyByte
    ELSE IF key \notin DOMAIN v.m THEN EmptyByte
    ELSE IF Len(v.m[key]) = 0 THEN EmptyByte
    ELSE v.m[key][Len(v.m[key])]

Get(v, key) ==
    IF v.isNil THEN EmptyByte
    ELSE IF key \notin DOMAIN v.m THEN EmptyByte
    ELSE IF Len(v.m[key]) = 0 THEN EmptyByte
    ELSE v.m[key][1]

(* Set and Add assign to an entry of v: on a nil map that panics, which    *)
(* the caller of these operators rules out.                                *)
Set(v, key, value) == Store(v, key, <<value>>)

Add(v, key, value) == Store(v, key, Append(Lookup(v, key), value))

Del(v, key) == [v EXCEPT !.m = [k \in DOMAIN v.m \ {key} |-> v.m[k]]]

IndexAny_ampOnly(s, chars) ==
    Let({i \in 1..Len(s) : s[i] = chAmp}, LAMBDA occ :
        IF occ = {} THEN -1 ELSE Min(occ) - 1)

(* bytes.IndexAny for a set of bytes.                                      *)
IndexAny(s, chars) ==
    Let({i \in 1..Len(s) : s[i] \in chars}, LAMBDA occ :
        IF occ = {} THEN -1 ELSE Min(occ) - 1)

(* The loop of parseQuery: m and err are the map and the error so far.     *)
RECURSIVE parseQuery_stopAtError(_, _, _)
parseQuery_stopAtError(m, query, e) ==
    IF query = EmptyByte \/ e # NilErr THEN [m |-> m, err |-> e]
    ELSE
    Let(IndexAny(query, {chAmp, chSemi}), LAMBDA i :
    Let(IF i >= 0 THEN Slice(query, 0, i) ELSE query, LAMBDA segment :
    Let(IF i >= 0 THEN SliceFrom(query, i + 1) ELSE EmptyByte, LAMBDA rest :
        IF segment = EmptyByte THEN parseQuery_stopAtError(m, rest, e)
        ELSE
        Let(Index(segment, EqualByte), LAMBDA j :
        Let(QueryUnescape(IF j >= 0 THEN Slice(segment, 0, j) ELSE segment),
            LAMBDA key :
            IF key.err # NilErr
            THEN parseQuery_stopAtError(m, rest, IF e = NilErr THEN key.err ELSE e)
            ELSE
            Let(QueryUnescape(IF j >= 0 THEN SliceFrom(segment, j + 1) ELSE EmptyByte),
                LAMBDA value :
                IF value.err # NilErr
                THEN parseQuery_stopAtError(m, rest,
                                            IF e = NilErr THEN value.err ELSE e)
                ELSE parseQuery_stopAtError(Add(m, key.b, value.b), rest, e)))))))

RECURSIVE parseQuery(_, _, _)
parseQuery(m, query, e) ==
    IF query = EmptyByte THEN [m |-> m, err |-> e]
    ELSE
    Let(IndexAny(query, {chAmp, chSemi}), LAMBDA i :
    Let(IF i >= 0 THEN Slice(query, 0, i) ELSE query, LAMBDA segment :
    Let(IF i >= 0 THEN SliceFrom(query, i + 1) ELSE EmptyByte, LAMBDA rest :
        IF segment = EmptyByte THEN parseQuery(m, rest, e)
        ELSE
        Let(Index(segment, EqualByte), LAMBDA j :
        Let(QueryUnescape(IF j >= 0 THEN Slice(segment, 0, j) ELSE segment),
            LAMBDA key :
            IF key.err # NilErr
            THEN parseQuery(m, rest, IF e = NilErr THEN key.err ELSE e)
            ELSE
            Let(QueryUnescape(IF j >= 0 THEN SliceFrom(segment, j + 1) ELSE EmptyByte),
                LAMBDA value :
                IF value.err # NilErr
                THEN parseQuery(m, rest, IF e = NilErr THEN value.err ELSE e)
                ELSE parseQuery(Add(m, key.b, value.b), rest, e)))))))

ParseQuery(query) == parseQuery(NewValues, query, NilErr)

(* Go's order of strings: byte-wise, a proper prefix first.                *)
StringLess(a, b) ==
    \/ Len(a) < Len(b) /\ SubSeq(b, 1, Len(a)) = a
    \/ \E i \in 1..Min({Len(a), Len(b)}) :
          /\ SubSeq(a, 1, i - 1) = SubSeq(b, 1, i - 1)
          /\ a[i] < b[i]

(* sort.Strings on the keys of a map.                                      *)
RECURSIVE SortStrings(_)
SortStrings(keys) ==
    IF keys = {} THEN <<>>
    ELSE Let(CHOOSE x \in keys : \A y \in keys \ {x} : StringLess(x, y), LAMBDA x :
             <<x>> \o SortStrings(keys \ {x}))

(* The inner loop of Encode: the values vs[j..] of one key written to buf. *)
RECURSIVE encodeValues(_, _, _, _)
encodeValues(prefix, vs, j, buf) ==
    IF j > Len(vs) THEN buf
    ELSE encodeValues(prefix, vs, j + 1,
                      buf \o (IF Len(buf) > 0 THEN <<chAmp>> ELSE <<>>)
                          \o prefix \o QueryEscape(vs[j]))

(* The outer loop of Encode over keys[i..].                                *)
RECURSIVE encodeKeys(_, _, _, _)
encodeKeys(v, keys, i, buf) ==
    IF i > Len(keys) THEN buf
    ELSE encodeKeys(v, keys, i + 1,
                    encodeValues(QueryEscape(keys[i]) \o EqualByte, v.m[keys[i]], 1, buf))

Encode_mapOrder(v) ==
    IF v.isNil THEN <<>>
    ELSE Let(SortStrings(DOMAIN v.m), LAMBDA keys :
             encodeKeys(v, [i \in 1..Len(keys) |-> keys[Len(keys) + 1 - i]], 1, <<>>))

Encode(v) ==
    IF v.isNil THEN <<>>
    ELSE encodeKeys(v, SortStrings(DOMAIN v.m), 1, <<>>)

----------------------------------------------------------------------------
(* The state machine.  op is the sequence of calls made so far; arg is the *)
(* byte string the caller passed to the first call and mode its encoding   *)
(* argument; url and err are what the last parse returned (or the URL the  *)
(* caller built); out is the last byte string returned; ret is what the    *)
(* last call of unescape, getscheme or parseAuthority returned; prev keeps *)
(* url and out of the pass before a serialized URL is parsed again.        *)

MaxLen == 3
MaxCalls == 4

(* All byte strings over alphabet A of length at most n.                   *)
Strs(A, n) == UNION {[1..k -> A] : k \in 0..n}

NoRet == [b |-> EmptyByte, err |-> NilErr]
NoPrev == [url |-> NilURL, out |-> EmptyByte]

Last(s) == s[Len(s)]

(* No URL instance and no Values map yet; the package-level byte slices   *)
(* hold what their declarations give them.                                 *)
NoInstances ==
    /\ pkg = PackageBytes
    /\ heap = <<>>
    /\ store = <<>>
    /\ baseURL = 0
    /\ refURL = 0
    /\ newURL = 0
    /\ values = NilValues
    /\ withKey = EmptyByte
    /\ withValue = EmptyByte

InitWith(inputs) ==
    /\ NoInstances
    /\ arg \in inputs
    /\ op = <<>>
    /\ mode = encodePath
    /\ url = NilURL
    /\ err = NoError
    /\ out = EmptyByte
    /\ ret = NoRet
    /\ prev = NoPrev

(* out := escape(arg, m), for each encoding m.                             *)
CallEscape ==
    /\ op = <<>>
    /\ url.isNil
    /\ \E m \in Modes : mode' = m /\ out' = escape(arg, m)
    /\ op' = <<"escape">>
    /\ UNCHANGED <<arg, url, err, ret, prev>>
    /\ UNCHANGED instances

(* out := QueryEscape(arg)                                                 *)
CallQueryEscape ==
    /\ op = <<>>
    /\ url.isNil
    /\ mode' = encodeQueryComponent
    /\ out' = QueryEscape(arg)
    /\ op' = <<"QueryEscape">>
    /\ UNCHANGED <<arg, url, err, ret, prev>>
    /\ UNCHANGED instances

(* b, err := unescape(out, mode), the escaped text decoded again.          *)
CallUnescape ==
    /\ op = <<"escape">>
    /\ ret' = unescape(out, mode)
    /\ op' = Append(op, "unescape")
    /\ UNCHANGED <<arg, mode, url, err, out, prev>>
    /\ UNCHANGED instances

(* b, err := QueryUnescape(out)                                            *)
CallQueryUnescape ==
    /\ op = <<"QueryEscape">>
    /\ ret' = QueryUnescape(out)
    /\ op' = Append(op, "QueryUnescape")
    /\ UNCHANGED <<arg, mode, url, err, out, prev>>
    /\ UNCHANGED instances

(* b, err := unescape(arg, m), for each encoding m.                        *)
CallUnescapeRaw ==
    /\ op = <<>>
    /\ url.isNil
    /\ \E m \in Modes : mode' = m /\ ret' = unescape(arg, m)
    /\ op' = <<"unescape">>
    /\ UNCHANGED <<arg, url, err, out, prev>>
    /\ UNCHANGED instances

(* out := escape(b, mode), the decoded text encoded again.                 *)
CallEscapeDecoded ==
    /\ op = <<"unescape">>
    /\ ret.err = NilErr
    /\ out' = escape(ret.b, mode)
    /\ op' = Append(op, "escape")
    /\ UNCHANGED <<arg, mode, url, err, ret, prev>>
    /\ UNCHANGED instances

(* url, err := Parse(arg)                                                  *)
CallParse ==
    /\ op = <<>>
    /\ url.isNil
    /\ \E r \in {Parse(arg)} : url' = r.url /\ err' = r.err
    /\ op' = <<"Parse">>
    /\ UNCHANGED <<arg, mode, out, ret, prev>>
    /\ UNCHANGED instances

(* url, err := ParseRequestURI(arg)                                        *)
CallParseRequestURI ==
    /\ op = <<>>
    /\ url.isNil
    /\ \E r \in {ParseRequestURI(arg)} : url' = r.url /\ err' = r.err
    /\ op' = <<"ParseRequestURI">>
    /\ UNCHANGED <<arg, mode, out, ret, prev>>
    /\ UNCHANGED instances

(* scheme, path, err := getscheme(arg)                                     *)
CallGetscheme ==
    /\ op = <<>>
    /\ url.isNil
    /\ ret' = getscheme(arg)
    /\ op' = <<"getscheme">>
    /\ UNCHANGED <<arg, mode, url, err, out, prev>>
    /\ UNCHANGED instances

(* user, host, err := parseAuthority(arg): parse passes it the text up to  *)
(* the first '/', taken from the text before the first '?'.                *)
CallParseAuthority ==
    /\ op = <<>>
    /\ url.isNil
    /\ ~Contains(arg, SlashByte) /\ ~Contains(arg, QuestionMarkByte)
    /\ ret' = parseAuthority(arg)
    /\ op' = <<"parseAuthority">>
    /\ UNCHANGED <<arg, mode, url, err, out, prev>>
    /\ UNCHANGED instances

(* url holds a URL the caller built or the last call returned.             *)
HoldsURL == IF op = <<>> THEN TRUE ELSE Last(op) \in {"Parse", "ParseRequestURI"}

(* out := url.Bytes(), on a URL a parse returned or the caller built.      *)
CallBytes ==
    /\ ~url.isNil
    /\ Len(op) < MaxCalls
    /\ HoldsURL
    /\ out' = Bytes(url)
    /\ op' = Append(op, "Bytes")
    /\ UNCHANGED <<arg, mode, url, err, ret, prev>>
    /\ UNCHANGED instances

(* out := url.RequestURI()                                                 *)
CallRequestURI ==
    /\ ~url.isNil
    /\ Len(op) < MaxCalls
    /\ HoldsURL
    /\ out' = RequestURI(url)
    /\ op' = Append(op, "RequestURI")
    /\ UNCHANGED <<arg, mode, url, err, ret, prev>>
    /\ UNCHANGED instances

(* url, err := Parse(out), the serialized URL parsed again.                *)
CallReparse ==
    /\ op # <<>>
    /\ Last(op) = "Bytes"
    /\ Len(op) < MaxCalls
    /\ prev' = [url |-> url, out |-> out]
    /\ \E r \in {Parse(out)} : url' = r.url /\ err' = r.err
    /\ op' = Append(op, "Parse")
    /\ UNCHANGED <<arg, mode, out, ret>>
    /\ UNCHANGED instances

(* The inputs of the splitter: nothing, "//", "a:", "A://" or "//%40@",    *)
(* followed by every byte string of length at most MaxLen over the bytes   *)
(* the splitter tells apart, and "*".                                      *)
ParseAlphabet ==
    {chSlash, chColon, chAt, chPercent, chQuestion, chHash, chLowA, chUpA,
     chZero, chZero + 4}

ParsePrefixes ==
    {<<>>,
     DoubleSlash,
     <<chLowA, chColon>>,
     <<chUpA, chColon, chSlash, chSlash>>,
     <<chSlash, chSlash, chPercent, chZero + 4, chZero, chAt>>}

ParseInputs == {p \o b : p \in ParsePrefixes, b \in Strs(ParseAlphabet, MaxLen)}

Init == InitWith(ParseInputs \cup {PackageBytes.AsteriskByte})

Next ==
    \/ CallParse
    \/ CallParseRequestURI
    \/ CallParseAuthority
    \/ CallBytes
    \/ CallReparse

Spec == Init /\ [][Next]_vars

(* Scheme detection: every byte string of length at most MaxLen over the   *)
(* bytes getscheme tells apart and the bytes next to its ranges.           *)
SchemeAlphabet ==
    {chLowA, chLowZ, chUpA, chUpZ, chZero, chNine, chPlus, chMinus, chDot,
     chColon, chSlash, chAt, chUpZ + 1, chLowA - 1, chLowZ + 1, chHash}

InitScheme == InitWith(Strs(SchemeAlphabet, MaxLen))

NextScheme ==
    \/ CallGetscheme
    \/ CallParse
    \/ CallParseRequestURI

SpecScheme == InitScheme /\ [][NextScheme]_vars

(* The codec: nothing, "%" or "%2c" followed by every byte string of       *)
(* length at most MaxLen over unreserved, reserved and other bytes, the    *)
(* bytes 0 and 255 and hex digits of either case among them, and each of   *)
(* the 256 bytes alone.                                                    *)
EscapeAlphabet ==
    {0, chSpace, chPercent, chPlus, chSlash, chColon, chQuestion, chAt,
     chZero + 2, chUpA + 1, chLowA + 2, chTilde, 255}

EscapePrefixes ==
    {<<>>, PercentByte, <<chPercent, chZero + 2, chLowA + 2>>}

EscapeInputs == {p \o b : p \in EscapePrefixes, b \in Strs(EscapeAlphabet, MaxLen)}

SingleBytes == {<<c>> : c \in 0..255}

InitEscape == InitWith(EscapeInputs \cup SingleBytes)

NextEscape ==
    \/ CallEscape
    \/ CallQueryEscape
    \/ CallUnescape
    \/ CallQueryUnescape
    \/ CallUnescapeRaw
    \/ CallEscapeDecoded

SpecEscape == InitEscape /\ [][NextEscape]_vars

(* The serializers, on the URLs a caller can build: the fields are public. *)
UserLiterals ==
    {NilUser, User(<<chLowA>>), UserPassword(<<chAt>>, <<>>)}

URLLiterals ==
    [isNil : {FALSE},
     Scheme : {<<>>, <<chLowA>>},
     Opaque : Strs({chSlash, chLowA}, MaxLen),
     User : UserLiterals,
     Host : {<<>>, <<chLowA>>},
     Path : Strs({chSlash, chQuestion}, MaxLen - 1),
     RawQuery : {<<>>, <<chLowA>>},
     Fragment : {<<>>, <<chHash>>}]

InitSerialize ==
    /\ NoInstances
    /\ url \in URLLiterals
    /\ arg = EmptyByte
    /\ op = <<>>
    /\ mode = encodePath
    /\ err = NoError
    /\ out = EmptyByte
    /\ ret = NoRet
    /\ prev = NoPrev

NextSerialize ==
    \/ CallBytes
    \/ CallRequestURI

SpecSerialize == InitSerialize /\ [][NextSerialize]_vars

(* Reference resolution.  The base is an instance Parse returned; arg is   *)
(* the text of the reference.  baseURL, refURL and newURL are the          *)
(* addresses of the base, of the reference and of the URL the last         *)
(* ResolveReference or URL.Parse returned (0: none).                       *)
MaxSegs == 2

chLowB == chLowA + 1
chLowG == chLowA + 6
chLowH == chLowA + 7
chLowQ == chLowA + 16
chLowR == chLowA + 17
chLowU == chLowA + 20
chLowY == chLowA + 24

(* Paths of at most n segments, each empty, ".", ".." or "a".              *)
Segments == {<<>>, <<chDot>>, <<chDot, chDot>>, <<chLowA>>}

SegPaths(n) ==
    {<<>>} \cup {Join(ss, <<chSlash>>) : ss \in UNION {[1..k -> Segments] : k \in 1..n}}

(* "a://u@h" + path + "?q#f" and path + "?q", the path being a path of     *)
(* segments or "/b/c/" followed by one.                                    *)
BaseTexts ==
    {k[1] \o d \o p \o k[2] :
        k \in {<< <<chLowA, chColon, chSlash, chSlash, chLowU, chAt, chLowH>>,
                  <<chQuestion, chLowQ, chHash, chLowA + 5>> >>,
               << <<>>, <<chQuestion, chLowQ>> >>},
        d \in {<<>>, <<chSlash, chLowB, chSlash, chLowA + 2, chSlash>>},
        p \in SegPaths(MaxSegs)}

(* Nothing, "b:" or "//g", a path of segments, then nothing, "?y", "#r" or *)
(* "?y#r"; "%" and ":" do not parse.                                       *)
RefTexts ==
    {k \o p \o s :
        k \in {<<>>, <<chLowB, chColon>>, <<chSlash, chSlash, chLowG>>},
        p \in SegPaths(MaxSegs),
        s \in {<<>>, <<chQuestion, chLowY>>, <<chHash, chLowR>>,
               <<chQuestion, chLowY, chHash, chLowR>>}}
    \cup {<<chPercent>>, <<chColon>>}

(* References the caller builds: an Opaque without a Scheme, which no      *)
(* parse returns.                                                          *)
RefLiterals ==
    {[NewURL EXCEPT !.Opaque = <<chLowA>>, !.Path = p, !.RawQuery = q] :
        p \in {<<>>, <<chSlash, chLowA>>}, q \in {<<>>, <<chLowY>>}}

InitResolve ==
    /\ pkg = PackageBytes
    /\ \E b \in BaseTexts :
          \E r \in {ParseAt(Memory(<<>>, <<>>), b)} :
              /\ r.ptr # 0
              /\ heap = r.heap
              /\ store = r.store
              /\ baseURL = r.ptr
    /\ refURL = 0
    /\ newURL = 0
    /\ values = NilValues
    /\ withKey = EmptyByte
    /\ withValue = EmptyByte
    /\ arg \in RefTexts
    /\ op = <<>>
    /\ mode = encodePath
    /\ url = NilURL
    /\ err = NoError
    /\ out = EmptyByte
    /\ ret = NoRet
    /\ prev = NoPrev

(* refurl, err := Parse(arg)                                               *)
CallParseRef ==
    /\ op = <<>>
    /\ baseURL # 0
    /\ \E r \in {ParseAt(Memory(heap, store), arg)} :
          /\ heap' = r.heap
          /\ store' = r.store
          /\ refURL' = r.ptr
          /\ err' = r.err
    /\ op' = <<"Parse">>
    /\ UNCHANGED <<arg, mode, url, out, ret, prev, pkg, baseURL, newURL, values, withKey, withValue>>

(* The caller builds the reference instead of parsing one.                 *)
CallerBuildsRef ==
    /\ op = <<>>
    /\ baseURL # 0
    /\ arg = EmptyByte
    /\ \E lit \in RefLiterals :
          \E n \in {New(Memory(heap, store), lit, "call")} :
              /\ heap' = n.heap
              /\ store' = n.store
              /\ refURL' = n.ptr
    /\ op' = <<"literal">>
    /\ UNCHANGED <<arg, mode, url, err, out, ret, prev, pkg, baseURL, newURL, values, withKey, withValue>>

(* newurl := base.ResolveReference(refurl)                                 *)
CallResolveReference ==
    /\ refURL # 0
    /\ newURL = 0
    /\ \E n \in {ResolveReferenceAt(Memory(heap, store), baseURL, refURL)} :
          /\ heap' = n.heap
          /\ store' = n.store
          /\ newURL' = n.ptr
    /\ op' = Append(op, "ResolveReference")
    /\ UNCHANGED <<arg, mode, url, err, out, ret, prev, pkg, baseURL, refURL, values, withKey, withValue>>

(* newurl, err := base.Parse(arg)                                          *)
CallURLParse ==
    /\ op = <<>>
    /\ baseURL # 0
    /\ \E n \in {URLParseAt(Memory(heap, store), baseURL, arg)} :
          /\ heap' = n.heap
          /\ store' = n.store
          /\ refURL' = n.refurl
          /\ newURL' = n.ptr
          /\ err' = n.err
    /\ op' = <<"URL.Parse">>
    /\ UNCHANGED <<arg, mode, url, out, ret, prev, pkg, baseURL, values, withKey, withValue>>

(* out := resolvePath(base.Path, arg)                                      *)
CallResolvePath ==
    /\ op = <<>>
    /\ baseURL # 0
    /\ out' = resolvePath(heap[baseURL].Path, arg)
    /\ op' = <<"resolvePath">>
    /\ UNCHANGED <<arg, mode, url, err, ret, prev>>
    /\ UNCHANGED instances

NextResolve ==
    \/ CallParseRef
    \/ CallerBuildsRef
    \/ CallResolveReference
    \/ CallURLParse
    \/ CallResolvePath

SpecResolve == InitResolve /\ [][NextResolve]_vars

(* The query multimap.  values is the caller's Values map, or the one      *)
(* ParseQuery(arg) returned; withKey and withValue are the arguments of    *)
(* the last Get, Set, Add or Del, and out is what Get or Encode returned.  *)
QueryAlphabet == {chAmp, chSemi, chEqual, chPercent, chPlus, chLowA, chZero + 4, chZero + 1}

QueryPrefixes ==
    {<<>>,
     <<chPercent, chAmp, chLowA, chAmp>>,
     <<chLowA, chEqual, chZero + 1, chAmp>>,
     <<chLowA, chEqual, chZero + 1, chSemi>>}

QueryInputs == {p \o b : p \in QueryPrefixes, b \in Strs(QueryAlphabet, MaxLen)}

(* The maps a caller builds: any of the keys "a", "A" and "a&", each with  *)
(* no value, with "1", or with " " and "1".                                *)
LiteralKeys == {<<chLowA>>, <<chUpA>>, <<chLowA, chAmp>>}

LiteralValues == {<<>>, << <<chZero + 1>> >>, << <<chSpace>>, <<chZero + 1>> >>}

ValuesLiterals ==
    {NilValues}
    \cup {[isNil |-> FALSE, m |-> f] :
             f \in UNION {[K -> LiteralValues] : K \in SUBSET LiteralKeys}}

CallKeys == {<<chLowA>>, <<chUpA>>}

CallValues == {<<>>, <<chZero + 2>>}

InitValues ==
    /\ pkg = PackageBytes
    /\ heap = <<>>
    /\ store = <<>>
    /\ baseURL = 0
    /\ refURL = 0
    /\ newURL = 0
    /\ \E given \in (QueryInputs \X {NilValues}) \cup ({EmptyByte} \X ValuesLiterals) :
          arg = given[1] /\ values = given[2]
    /\ withKey = EmptyByte
    /\ withValue = EmptyByte
    /\ op = <<>>
    /\ mode = encodeQueryComponent
    /\ url = NilURL
    /\ err = NoError
    /\ out = EmptyByte
    /\ ret = NoRet
    /\ prev = NoPrev

valuesFrame == <<mode, url, err, prev, pkg, heap, store, baseURL, refURL, newURL>>

(* The caller may go on: no call has panicked, and Get and Encode end a    *)
(* run.                                                                    *)
MayCall ==
    /\ Len(op) < MaxCalls
    /\ IF op = <<>> THEN TRUE ELSE Last(op) \notin {"panic", "Get", "Encode"}

(* values, err := ParseQuery(arg)                                          *)
CallParseQuery ==
    /\ op = <<>>
    /\ values = NilValues
    /\ \E r \in {ParseQuery(arg)} :
          /\ values' = r.m
          /\ ret' = [b |-> EmptyByte, err |-> r.err]
    /\ op' = <<"ParseQuery">>
    /\ UNCHANGED <<arg, out, withKey, withValue>>
    /\ UNCHANGED valuesFrame

(* out := values.Encode()                                                  *)
CallEncode ==
    /\ MayCall
    /\ out' = Encode(values)
    /\ op' = Append(op, "Encode")
    /\ UNCHANGED <<arg, ret, values, withKey, withValue>>
    /\ UNCHANGED valuesFrame

(* out := values.Get(key)                                                  *)
CallGet ==
    /\ MayCall
    /\ arg = EmptyByte
    /\ \E key \in CallKeys :
          /\ withKey' = key
          /\ out' = Get(values, key)
    /\ op' = Append(op, "Get")
    /\ UNCHANGED <<arg, ret, values, withValue>>
    /\ UNCHANGED valuesFrame

(* values.Set(key, value); the assignment panics on a nil map.             *)
CallSet ==
    /\ MayCall
    /\ arg = EmptyByte
    /\ \E key \in CallKeys, value \in CallValues :
          /\ withKey' = key
          /\ withValue' = value
          /\ values' = IF values.isNil THEN values ELSE Set(values, key, value)
    /\ op' = Append(op, IF values.isNil THEN "panic" ELSE "Set")
    /\ UNCHANGED <<arg, out, ret>>
    /\ UNCHANGED valuesFrame

(* values.Add(key, value); the assignment panics on a nil map.             *)
CallAdd ==
    /\ MayCall
    /\ arg = EmptyByte
    /\ \E key \in CallKeys, value \in CallValues :
          /\ withKey' = key
          /\ withValue' = value
          /\ values' = IF values.isNil THEN values ELSE Add(values, key, value)
    /\ op' = Append(op, IF values.isNil THEN "panic" ELSE "Add")
    /\ UNCHANGED <<arg, out, ret>>
    /\ UNCHANGED valuesFrame

(* values.Del(key); delete does nothing on a nil map.                      *)
CallDel ==
    /\ MayCall
    /\ arg = EmptyByte
    /\ \E key \in CallKeys :
          /\ withKey' = key
          /\ values' = Del(values, key)
    /\ op' = Append(op, "Del")
    /\ UNCHANGED <<arg, out, ret, withValue>>
    /\ UNCHANGED valuesFrame

NextValues ==
    \/ CallParseQuery
    \/ CallEncode
    \/ CallGet
    \/ CallSet
    \/ CallAdd
    \/ CallDel

SpecValues == InitValues /\ [][NextValues]_vars

(* Encode and ParseQuery in turn, on the maps a caller builds of at most   *)
(* MaxKeys keys: a key is a text of at most one byte out of '&', ';', '=', *)
(* '+', '%', ' ' and 'a', or "a=" or "%2"; a key has no value, the empty   *)
(* value, " " and "+", or "%2B" and "a=1&b;".                              *)
MaxKeys == 2

RoundTripAlphabet == {chAmp, chSemi, chEqual, chPlus, chPercent, chSpace, chLowA}

RoundTripKeys ==
    Strs(RoundTripAlphabet, 1)
    \cup {<<chLowA, chEqual>>, <<chPercent, chZero + 2>>}

RoundTripValues ==
    {<<>>,
     << <<>> >>,
     << <<chSpace>>, <<chPlus>> >>,
     << <<chPercent, chZero + 2, chUpA + 1>>,
        <<chLowA, chEqual, chZero + 1, chAmp, chLowB, chSemi>> >>}

RoundTripLiterals ==
    {NilValues}
    \cup {[isNil |-> FALSE, m |-> f] :
             f \in UNION {[K -> RoundTripValues] :
                             K \in {S \in SUBSET RoundTripKeys : Cardinality(S) <= MaxKeys}}}

InitRoundTrip ==
    /\ pkg = PackageBytes
    /\ heap = <<>>
    /\ store = <<>>
    /\ baseURL = 0
    /\ refURL = 0
    /\ newURL = 0
    /\ values \in RoundTripLiterals
    /\ withKey = EmptyByte
    /\ withValue = EmptyByte
    /\ arg = EmptyByte
    /\ op = <<>>
    /\ mode = encodeQueryComponent
    /\ url = NilURL
    /\ err = NoError
    /\ out = EmptyByte
    /\ ret = NoRet
    /\ prev = NoPrev

(* values, err := ParseQuery(out), the encoded map parsed again; prev      *)
(* keeps the map that was encoded.                                         *)
CallParseEncoded ==
    /\ op = <<"Encode">>
    /\ prev' = [url |-> NilURL, out |-> out, values |-> values]
    /\ \E r \in {ParseQuery(out)} :
          /\ values' = r.m
          /\ ret' = [b |-> EmptyByte, err |-> r.err]
    /\ op' = Append(op, "ParseQuery")
    /\ UNCHANGED <<arg, out, withKey, withValue>>
    /\ UNCHANGED <<mode, url, err, pkg, heap, store, baseURL, refURL, newURL>>

NextRoundTrip ==
    \/ CallEncode
    \/ CallParseEncoded

SpecRoundTrip == InitRoundTrip /\ [][NextRoundTrip]_vars

(* Storage.  The caller parses texts, resolves instances it holds against  *)
(* each other and writes a byte of the Path of an instance in place, which *)
(* the exported fields of URL allow.                                       *)
MaxInstances == 3

MemoryTexts == {<<chStar>>, <<chSlash>>, <<chLowA>>}

WrittenBytes == {chLowA, chSlash}

(* u.Path[0] = c on the instance at p: a store into the storage the Path   *)
(* is in, seen by every slice of that storage.                             *)
WritePath(m, pk, p, c) ==
    IF m.store[p] \in DOMAIN pk
    THEN [pkg |-> [pk EXCEPT ![m.store[p]] = [@ EXCEPT ![1] = c]],
          heap |-> [q \in DOMAIN m.heap |->
                       IF m.store[q] = m.store[p]
                       THEN [m.heap[q] EXCEPT !.Path = [@ EXCEPT ![1] = c]]
                       ELSE m.heap[q]]]
    ELSE [pkg |-> pk,
          heap |-> [m.heap EXCEPT ![p] = [@ EXCEPT !.Path = [@ EXCEPT ![1] = c]]]]

InitMemory ==
    /\ NoInstances
    /\ arg = EmptyByte
    /\ op = <<>>
    /\ mode = encodePath
    /\ url = NilURL
    /\ err = NoError
    /\ out = EmptyByte
    /\ ret = NoRet
    /\ prev = NoPrev

memoryFrame == <<mode, url, out, ret, prev, values, withKey, withValue>>

(* newurl, err := Parse(text)                                              *)
MemParse ==
    /\ Len(op) < MaxCalls
    /\ Len(heap) < MaxInstances
    /\ \E text \in MemoryTexts :
          \E r \in {ParseAt(Memory(heap, store), text)} :
              /\ arg' = text
              /\ heap' = r.heap
              /\ store' = r.store
              /\ newURL' = r.ptr
              /\ err' = r.err
    /\ op' = Append(op, "Parse")
    /\ UNCHANGED <<pkg, baseURL, refURL>>
    /\ UNCHANGED memoryFrame

(* newurl, err := ParseRequestURI(text)                                    *)
MemParseRequestURI ==
    /\ Len(op) < MaxCalls
    /\ Len(heap) < MaxInstances
    /\ \E text \in MemoryTexts :
          \E r \in {ParseRequestURIAt(Memory(heap, store), text)} :
              /\ arg' = text
              /\ heap' = r.heap
              /\ store' = r.store
              /\ newURL' = r.ptr
              /\ err' = r.err
    /\ op' = Append(op, "ParseRequestURI")
    /\ UNCHANGED <<pkg, baseURL, refURL>>
    /\ UNCHANGED memoryFrame

(* newurl := b.ResolveReference(r), on two instances the caller holds.     *)
MemResolveReference ==
    /\ Len(op) < MaxCalls
    /\ Len(heap) < MaxInstances
    /\ \E b \in DOMAIN heap, r \in DOMAIN heap :
          \E n \in {ResolveReferenceAt(Memory(heap, store), b, r)} :
              /\ baseURL' = b
              /\ refURL' = r
              /\ heap' = n.heap
              /\ store' = n.store
              /\ newURL' = n.ptr
    /\ op' = Append(op, "ResolveReference")
    /\ UNCHANGED <<arg, err, pkg>>
    /\ UNCHANGED memoryFrame

(* u.Path[0] = c, on an instance the caller holds.                         *)
CallerWritesPath ==
    /\ Len(op) < MaxCalls
    /\ \E p \in DOMAIN heap, c \in WrittenBytes :
          /\ heap[p].Path # EmptyByte
          /\ heap[p].Path[1] # c
          /\ \E w \in {WritePath(Memory(heap, store), pkg, p, c)} :
                /\ heap' = w.heap
                /\ pkg' = w.pkg
    /\ op' = Append(op, "write")
    /\ UNCHANGED <<arg, err, store, baseURL, refURL, newURL>>
    /\ UNCHANGED memoryFrame

NextMemory ==
    \/ MemParse
    \/ MemParseRequestURI
    \/ MemResolveReference
    \/ CallerWritesPath

SpecMemory == InitMemory /\ [][NextMemory]_vars

----------------------------------------------------------------------------
(* The vocabulary of the properties, defined on the text alone.            *)

(* 1-based position of the first / last byte c of s, 0 when s has none.    *)
FirstAt(s, c) ==
    IF \E i \in 1..Len(s) : s[i] = c
    THEN CHOOSE i \in 1..Len(s) : s[i] = c /\ \A j \in 1..(i - 1) : s[j] # c
    ELSE 0
LastAt(s, c) ==
    IF \E i \in 1..Len(s) : s[i] = c
    THEN CHOOSE i \in 1..Len(s) : s[i] = c /\ \A j \in (i + 1)..Len(s) : s[j] # c
    ELSE 0

(* The text before the first c (all of s without c) and the text after it. *)
UpTo(s, c) == IF FirstAt(s, c) = 0 THEN s ELSE SubSeq(s, 1, FirstAt(s, c) - 1)
After(s, c) == IF FirstAt(s, c) = 0 THEN <<>> ELSE SubSeq(s, FirstAt(s, c) + 1, Len(s))
AfterLast(s, c) == SubSeq(s, LastAt(s, c) + 1, Len(s))
BeforeLast(s, c) == SubSeq(s, 1, LastAt(s, c) - 1)

StartsWith(s, p) == Len(p) <= Len(s) /\ \A i \in 1..Len(p) : s[i] = p[i]
Has(s, c) == \E i \in 1..Len(s) : s[i] = c

IsAlpha(c) == c \in 65..90 \/ c \in 97..122
IsSchemeByte(c) == IsAlpha(c) \/ c \in 48..57 \/ c \in {43, 45, 46}
IsHexDigit(c) == c \in 48..57 \/ c \in 65..70 \/ c \in 97..102

(* s holds a '%' that is not followed by two hex digits.                   *)
Malformed(s) ==
    \E i \in 1..Len(s) :
        /\ s[i] = 37
        /\ (i + 2 > Len(s) \/ ~IsHexDigit(s[i + 1]) \/ ~IsHexDigit(s[i + 2]))

(* s begins with "scheme:".                                                *)
HasSchemePrefix(s) ==
    /\ FirstAt(s, 58) > 1
    /\ IsAlpha(s[1])
    /\ \A i \in 1..(FirstAt(s, 58) - 1) : IsSchemeByte(s[i])

(* A parse has just returned; it was the first call; it was strict.        *)
JustParsed == op # <<>> /\ Last(op) \in {"Parse", "ParseRequestURI"}
FirstParse == Len(op) = 1 /\ JustParsed
Strict == op # <<>> /\ Last(op) = "ParseRequestURI"

(* The text parse works on, of the text a call is given: Parse cuts the    *)
(* fragment off first.                                                     *)
CoreOf(given, strict) == IF strict THEN given ELSE UpTo(given, 35)

(* The text after the scheme and before the first '?'.                     *)
HierOf(core) == UpTo(IF HasSchemePrefix(core) THEN After(core, 58) ELSE core, 63)

(* Authority detection applies; the authority, its host and its userinfo,  *)
(* and the text that follows the authority.                                *)
AuthorityAppliesOf(core, strict) ==
    /\ StartsWith(HierOf(core), <<47, 47>>)
    /\ HasSchemePrefix(core) \/ (~strict /\ ~StartsWith(HierOf(core), <<47, 47, 47>>))
AuthorityOf(core) == UpTo(SubSeq(HierOf(core), 3, Len(HierOf(core))), 47)
AfterAuthorityOf(core) ==
    SubSeq(HierOf(core), 3 + Len(AuthorityOf(core)), Len(HierOf(core)))

(* The same, of the text the last parse was given.                         *)
Given == IF Len(op) = 1 THEN arg ELSE out
Core == CoreOf(Given, Strict)
Hier == HierOf(Core)
AuthorityApplies == AuthorityAppliesOf(Core, Strict)
AuthorityText == AuthorityOf(Core)
HostText == AfterLast(AuthorityText, 64)
UserinfoText == BeforeLast(AuthorityText, 64)

----------------------------------------------------------------------------
(* C2, as stated: whenever authority detection applies and the host part   *)
(* of the authority holds a '%', the parse fails with ErrHexadeciamlEscape *)
(* whatever the scheme, the userinfo or the rest of the input; and no URL  *)
(* a parse returns has a '%' in Host.                                      *)
C2_AsStated ==
    /\ (JustParsed /\ AuthorityApplies /\ Has(HostText, 37))
           => (url.isNil /\ err.Err = ErrHexadeciamlEscape)
    /\ (JustParsed /\ ~url.isNil) => ~Has(url.Host, 37)

(* C2, amended: whenever authority detection applies and the host part of  *)
(* the authority holds a '%', the parse fails; the failure is              *)
(* ErrHexadeciamlEscape when the userinfo decodes, and the userinfo's      *)
(* EscapeError when the userinfo holds a malformed escape.  No URL a parse *)
(* returns has a '%' in Host.                                              *)
C2_HostEscapeFails ==
    /\ (JustParsed /\ AuthorityApplies /\ Has(HostText, 37))
           => /\ url.isNil
              /\ err.Op = "parse"
              /\ ~Malformed(UserinfoText) => err.Err = ErrHexadeciamlEscape
              /\ Malformed(UserinfoText) => err.Err.kind = "EscapeError"
    /\ (JustParsed /\ ~url.isNil) => ~Has(url.Host, 37)

(* A parse of a text with a userinfo and a '%' in its host has failed with *)
(* ErrHexadeciamlEscape.                                                   *)
C2_Witness ==
    /\ JustParsed /\ AuthorityApplies /\ Has(HostText, 37)
    /\ Has(AuthorityText, 64)
    /\ url.isNil /\ err.Err = ErrHexadeciamlEscape

----------------------------------------------------------------------------
(* C3: every failure of Parse or ParseRequestURI returns no URL together   *)
(* with an Error whose Op is "parse" and whose URL is the complete input   *)
(* of that call, a "#fragment" included.                                   *)
C3_ErrorCarriesWholeInput ==
    JustParsed =>
        /\ url.isNil <=> err # NoError
        /\ err # NoError => (err.Op = "parse" /\ err.URL = Given)

----------------------------------------------------------------------------
(* C4: a parse extracts an authority exactly when the text after the       *)
(* scheme and before the first '?' begins with "//" and either a scheme    *)
(* was found or the call is Parse and the text does not begin with "///".  *)
(* Then Host is the authority's host, User is present exactly when the     *)
(* authority holds an '@', and Path is decoded from what follows the       *)
(* authority.  Otherwise User is absent and Host is empty, and (unless the *)
(* text is taken as Opaque, C5) the whole text, leading slashes included,  *)
(* is decoded into Path.                                                   *)
C4_AuthorityExactlyWhen ==
    (JustParsed /\ ~url.isNil) =>
        /\ AuthorityApplies =>
              /\ url.Host = HostText
              /\ url.User.isNil <=> ~Has(AuthorityText, 64)
              /\ url.Path = unescape(AfterAuthorityOf(Core), encodePath).b
              /\ url.Path # unescape(Hier, encodePath).b
        /\ ~AuthorityApplies => (url.User.isNil /\ url.Host = <<>>)
        /\ (~AuthorityApplies /\ ~(HasSchemePrefix(Core) /\ ~StartsWith(Hier, <<47>>)))
              => url.Path = unescape(Hier, encodePath).b

(* Parse has returned a schemeless text beginning with "///" whole, as the *)
(* Path.                                                                   *)
C4_Witness ==
    /\ op = <<"Parse">> /\ ~url.isNil
    /\ ~HasSchemePrefix(Core) /\ StartsWith(Hier, <<47, 47, 47>>)
    /\ Len(Hier) > 3
    /\ url.Path = Hier /\ url.Host = <<>> /\ url.User.isNil

----------------------------------------------------------------------------
(* C5: when a scheme is found and the text after "scheme:" up to the first *)
(* '?' does not begin with '/', parse returns a URL whose Opaque is that   *)
(* text, undecoded, with User absent and Host and Path empty (Parse then   *)
(* fails only on a malformed fragment); no URL a parse returns has a       *)
(* non-empty Opaque with an empty Scheme, a Host, a Path or a User.        *)
C5_OpaqueAfterScheme ==
    /\ (FirstParse /\ HasSchemePrefix(Core) /\ ~StartsWith(Hier, <<47>>)) =>
          /\ url.isNil => (~Strict /\ Malformed(After(Given, 35)))
          /\ ~url.isNil =>
                /\ url.Opaque = Hier
                /\ url.User.isNil /\ url.Host = <<>> /\ url.Path = <<>>
    /\ (JustParsed /\ ~url.isNil /\ url.Opaque # <<>>) =>
          /\ url.Scheme # <<>>
          /\ url.User.isNil /\ url.Host = <<>> /\ url.Path = <<>>

(* A parse has returned an Opaque that keeps its percent sign.             *)
C5_Witness ==
    /\ FirstParse /\ ~url.isNil
    /\ HasSchemePrefix(Core) /\ url.Opaque = Hier /\ Has(url.Opaque, 37)

----------------------------------------------------------------------------
(* C7: in an authority the host is the text after the last '@' (all of it  *)
(* without an '@'); the userinfo before it is split at its first ':' into  *)
(* username and password, each decoded on its own in userinfo context; a   *)
(* userinfo without ':' has no password set, one ending in ':' has an      *)
(* empty password set.  Checked of parseAuthority and of the URL a parse   *)
(* returns.                                                                *)
UserOf(userinfo) ==
    [isNil |-> FALSE,
     username |-> unescape(UpTo(userinfo, 58), encodeUserPassword).b,
     password |-> unescape(After(userinfo, 58), encodeUserPassword).b,
     passwordSet |-> Has(userinfo, 58)]

C7_AuthoritySplit ==
    /\ op = <<"parseAuthority">> =>
          /\ ret.host = AfterLast(arg, 64)
          /\ ~Has(arg, 64) => (ret.user.isNil /\ ret.err = NilErr)
          /\ Has(arg, 64) => (ret.err = NilErr <=> ~Malformed(BeforeLast(arg, 64)))
          /\ (Has(arg, 64) /\ ret.err = NilErr) => ret.user = UserOf(BeforeLast(arg, 64))
    /\ (JustParsed /\ ~url.isNil /\ AuthorityApplies) =>
          /\ url.Host = HostText
          /\ ~Has(HostText, 64)
          /\ Has(AuthorityText, 64) => url.User = UserOf(UserinfoText)

(* parseAuthority has returned a username holding an '@' and a password.   *)
C7_Witness ==
    /\ op = <<"parseAuthority">> /\ ret.err = NilErr
    /\ ~ret.user.isNil /\ Has(ret.user.username, 64) /\ ret.user.passwordSet

----------------------------------------------------------------------------
(* C8, as stated: ParseRequestURI fails with ErrEmptyURL on the empty      *)
(* input and with ErrInvalidRequestURI on every non-empty input other than *)
(* "*" without a scheme whose text before the first '?' does not begin     *)
(* with '/'; Parse accepts the empty input and returns a URL with every    *)
(* field empty.                                                            *)
C8_AsStated ==
    /\ (op = <<"ParseRequestURI">> /\ arg = <<>>)
          => (url.isNil /\ err.Err = ErrEmptyURL)
    /\ (op = <<"ParseRequestURI">> /\ arg # <<>> /\ arg # <<42>>
            /\ ~HasSchemePrefix(arg) /\ ~StartsWith(UpTo(arg, 63), <<47>>))
          => (url.isNil /\ err.Err = ErrInvalidRequestURI)
    /\ (op = <<"Parse">> /\ arg = <<>>) => (err = NoError /\ url = NewURL)

(* C8, amended: the same, for the inputs that do not begin with ':'; an    *)
(* input that begins with ':' fails with ErrProtocolScheme instead.        *)
C8_StrictRejects ==
    /\ (op = <<"ParseRequestURI">> /\ arg = <<>>)
          => (url.isNil /\ err.Err = ErrEmptyURL)
    /\ (op = <<"ParseRequestURI">> /\ arg # <<>> /\ arg # <<42>>
            /\ ~HasSchemePrefix(arg) /\ ~StartsWith(UpTo(arg, 63), <<47>>))
          => /\ url.isNil
             /\ arg[1] # 58 => err.Err = ErrInvalidRequestURI
             /\ arg[1] = 58 => err.Err = ErrProtocolScheme
    /\ (op = <<"Parse">> /\ arg = <<>>)
          => /\ err = NoError
             /\ ~url.isNil /\ url.User.isNil
             /\ \A f \in {"Scheme", "Opaque", "Host", "Path", "RawQuery", "Fragment"} :
                    url[f] = <<>>

(* ParseRequestURI has failed with ErrInvalidRequestURI on a text that     *)
(* Parse would take as a relative path.                                    *)
C8_Witness ==
    /\ op = <<"ParseRequestURI">> /\ arg # <<>> /\ ~HasSchemePrefix(arg)
    /\ url.isNil /\ err = Error("parse", arg, ErrInvalidRequestURI)

----------------------------------------------------------------------------
(* C9: for every input s Parse accepts whose userinfo holds an unescaped   *)
(* '@' in the username, with u = Parse(s) and b = u.Bytes(): Parse(b)      *)
(* succeeds with the username, password and host of u, Parse(b).Bytes() is *)
(* b, and b differs from s.                                                *)
AtInUsername(s) ==
    /\ AuthorityAppliesOf(CoreOf(s, FALSE), FALSE)
    /\ Has(UpTo(BeforeLast(AuthorityOf(CoreOf(s, FALSE)), 64), 58), 64)

C9_SecondPassStable ==
    /\ (op = <<"Parse", "Bytes", "Parse">> /\ AtInUsername(arg)) =>
          /\ ~url.isNil /\ err = NoError
          /\ ~prev.url.isNil
          /\ url.User = prev.url.User
          /\ url.Host = prev.url.Host
          /\ out # arg
    /\ (op = <<"Parse", "Bytes", "Parse", "Bytes">> /\ AtInUsername(arg)) =>
          /\ out = prev.out
          /\ prev.out # arg

(* The second serialization of a URL whose username holds an '@' and whose *)
(* path is not empty has been computed.                                    *)
C9_Witness ==
    /\ op = <<"Parse", "Bytes", "Parse", "Bytes">> /\ AtInUsername(arg)
    /\ Has(url.User.username, 64) /\ url.Path # <<>>
    /\ out = prev.out

----------------------------------------------------------------------------
(* C1: for every byte string s without '%' and each encoding m,            *)
(* unescape(escape(s, m), m) returns s and no error; in particular         *)
(* QueryUnescape(QueryEscape(s)) does.                                     *)
C1_EscapeRoundTrip ==
    (/\ op \in {<<"escape", "unescape">>, <<"QueryEscape", "QueryUnescape">>}
     /\ ~Has(arg, 37))
        => (ret.err = NilErr /\ ret.b = arg)

(* QueryUnescape has returned a text that QueryEscape had changed, both a  *)
(* space and a '+' in it.                                                  *)
C1_Witness ==
    /\ op = <<"QueryEscape", "QueryUnescape">>
    /\ ~Has(arg, 37) /\ Has(arg, 32) /\ Has(arg, 43)
    /\ out # arg /\ ret.b = arg

----------------------------------------------------------------------------
(* C6: an input has a scheme exactly when its text before the first ':' is *)
(* not empty, starts with a letter and holds only letters, digits, '+',    *)
(* '-' and '.'; getscheme then returns that text and what follows the ':', *)
(* and a parse stores the scheme lowercased.  An input whose first byte is *)
(* ':' fails with ErrProtocolScheme; every other input has no scheme, no   *)
(* error, and is the remainder whole.                                      *)
Lowered(s) == [i \in 1..Len(s) |-> IF s[i] \in 65..90 THEN s[i] + 32 ELSE s[i]]

ColonFirst(s) == s # <<>> /\ s[1] = 58

C6_SchemeDetection ==
    /\ op = <<"getscheme">> =>
          /\ HasSchemePrefix(arg) =>
                ret = [scheme |-> UpTo(arg, 58), path |-> After(arg, 58), err |-> NilErr]
          /\ ColonFirst(arg) => ret.err = ErrProtocolScheme
          /\ (~HasSchemePrefix(arg) /\ ~ColonFirst(arg)) =>
                ret = [scheme |-> <<>>, path |-> arg, err |-> NilErr]
    /\ FirstParse =>
          /\ ColonFirst(arg) => (url.isNil /\ err.Err = ErrProtocolScheme)
          /\ ~url.isNil =>
                url.Scheme = (IF HasSchemePrefix(arg) THEN Lowered(UpTo(arg, 58)) ELSE <<>>)

(* A parse has returned a scheme it had to lowercase.                      *)
C6_Witness ==
    /\ FirstParse /\ ~url.isNil /\ HasSchemePrefix(arg)
    /\ url.Scheme # UpTo(arg, 58) /\ url.Scheme = Lowered(UpTo(arg, 58))

----------------------------------------------------------------------------
(* C10: when Opaque is not empty, Bytes returns the scheme with ':' (when  *)
(* there is a scheme), then Opaque, then '?' and RawQuery and '#' and the  *)
(* escaped Fragment when these are not empty; RequestURI returns Opaque,   *)
(* after the scheme and ':' only when Opaque begins with "//", then '?'    *)
(* and RawQuery when it is not empty.  Neither reads User, Host or Path.   *)
QueryPart(u) == IF u.RawQuery = <<>> THEN <<>> ELSE <<63>> \o u.RawQuery

C10_OpaqueWins ==
    /\ (op = <<"Bytes">> /\ url.Opaque # <<>>) =>
          out = (IF url.Scheme = <<>> THEN <<>> ELSE url.Scheme \o <<58>>)
                \o url.Opaque
                \o QueryPart(url)
                \o (IF url.Fragment = <<>> THEN <<>>
                    ELSE <<35>> \o escape(url.Fragment, encodeFragment))
    /\ (op = <<"RequestURI">> /\ url.Opaque # <<>>) =>
          out = (IF StartsWith(url.Opaque, <<47, 47>>) THEN url.Scheme \o <<58>> ELSE <<>>)
                \o url.Opaque
                \o QueryPart(url)

(* RequestURI has put the scheme before an Opaque that begins with "//",   *)
(* of a URL that has a User, a Host and a Path as well.                    *)
C10_Witness ==
    /\ op = <<"RequestURI">>
    /\ StartsWith(url.Opaque, <<47, 47>>) /\ url.Scheme # <<>>
    /\ ~url.User.isNil /\ url.Host # <<>> /\ url.Path # <<>>
    /\ out = url.Scheme \o <<58>> \o url.Opaque \o QueryPart(url)

----------------------------------------------------------------------------
(* Reference resolution: the base, the reference and the URL returned.     *)
Resolved ==
    /\ op # <<>>
    /\ Last(op) \in {"ResolveReference", "URL.Parse"}
    /\ newURL # 0

BaseOf == heap[baseURL]
RefOf == heap[refURL]
NewOf == heap[newURL]

(* A reference with no scheme, no host, no userinfo and no opaque part.    *)
Relative(r) == r.Scheme = <<>> /\ r.Host = <<>> /\ r.User.isNil /\ r.Opaque = <<>>

(* p[i..j] is a whole segment of the path p.                               *)
SegmentAt(p, i, j) ==
    /\ i = 1 \/ p[i - 1] = 47
    /\ j = Len(p) \/ p[j + 1] = 47
    /\ \A k \in i..j : p[k] # 47

HasDotSegment(p) ==
    \/ \E i \in 1..Len(p) : SegmentAt(p, i, i) /\ p[i] = 46
    \/ \E i \in 1..(Len(p) - 1) : SegmentAt(p, i, i + 1) /\ p[i] = 46 /\ p[i + 1] = 46

(* A path resolution has nothing to do on: empty, or beginning with one    *)
(* '/' only and free of "." and ".." segments.                             *)
InResolvedForm(p) ==
    \/ p = <<>>
    \/ /\ p[1] = 47
       /\ Len(p) = 1 \/ p[2] # 47
       /\ ~HasDotSegment(p)

(* C11 as stated: for a reference with empty scheme, empty host, no        *)
(* userinfo and empty opaque, the result has the base's scheme, userinfo   *)
(* and host and the path resolvePath(base path, reference path), and when  *)
(* the reference path is empty the result keeps the base's path.           *)
C11_AsStated ==
    (Resolved /\ Relative(RefOf)) =>
        /\ NewOf.Scheme = BaseOf.Scheme
        /\ NewOf.User = BaseOf.User
        /\ NewOf.Host = BaseOf.Host
        /\ NewOf.Path = resolvePath(BaseOf.Path, RefOf.Path)
        /\ RefOf.Path = <<>> => NewOf.Path = BaseOf.Path

(* C11: for a reference with empty scheme, empty host, no userinfo and     *)
(* empty opaque, the result has the base's scheme, userinfo and host and   *)
(* the path resolvePath(base path, reference path); when the reference     *)
(* path is empty, that is the base's path provided the base's path is      *)
(* empty or already in resolved form.                                      *)
C11_RelativeInherits ==
    (Resolved /\ Relative(RefOf)) =>
        /\ NewOf.Scheme = BaseOf.Scheme
        /\ NewOf.User = BaseOf.User
        /\ NewOf.Host = BaseOf.Host
        /\ NewOf.Path = resolvePath(BaseOf.Path, RefOf.Path)
        /\ (RefOf.Path = <<>> /\ InResolvedForm(BaseOf.Path)) =>
              NewOf.Path = BaseOf.Path

(* A query-only reference resolved against a base with a userinfo, a host  *)
(* and a path with a ".." segment: the path returned is not the base's.    *)
C11_Witness ==
    /\ Resolved /\ Relative(RefOf)
    /\ RefOf.Path = <<>> /\ RefOf.RawQuery # <<>>
    /\ ~BaseOf.User.isNil /\ BaseOf.Host # <<>> /\ HasDotSegment(BaseOf.Path)
    /\ NewOf.User = BaseOf.User /\ NewOf.Host = BaseOf.Host
    /\ NewOf.Path # BaseOf.Path

----------------------------------------------------------------------------
(* C12: for a reference with no scheme, host, userinfo or opaque, the      *)
(* result's RawQuery is the base's when the reference's path and RawQuery  *)
(* are both empty and the reference's own otherwise; the result's fragment *)
(* is the base's when the reference's path, RawQuery and fragment are all  *)
(* empty and the reference's own otherwise.                                *)
C12_QueryAndFragment ==
    (Resolved /\ Relative(RefOf)) =>
        /\ NewOf.RawQuery =
              IF RefOf.Path = <<>> /\ RefOf.RawQuery = <<>>
              THEN BaseOf.RawQuery ELSE RefOf.RawQuery
        /\ NewOf.Fragment =
              IF RefOf.Path = <<>> /\ RefOf.RawQuery = <<>> /\ RefOf.Fragment = <<>>
              THEN BaseOf.Fragment ELSE RefOf.Fragment

(* A query-only reference resolved against a base with a fragment: the     *)
(* result has the reference's query and no fragment.                       *)
C12_Witness ==
    /\ Resolved /\ Relative(RefOf)
    /\ RefOf.Path = <<>> /\ RefOf.RawQuery # <<>> /\ RefOf.Fragment = <<>>
    /\ BaseOf.Fragment # <<>> /\ BaseOf.RawQuery # RefOf.RawQuery
    /\ NewOf.RawQuery = RefOf.RawQuery
    /\ NewOf.Fragment = <<>>

----------------------------------------------------------------------------
(* The empty reference: what Parse returns for the empty text.             *)
EmptyReference(r) ==
    /\ Relative(r)
    /\ r.Path = <<>> /\ r.RawQuery = <<>> /\ r.Fragment = <<>>

(* C13 as stated: resolving the empty reference against a base with empty  *)
(* Opaque returns the base's scheme, userinfo, host, path, RawQuery and    *)
(* fragment, hence the base's serialization.                               *)
C13_AsStated ==
    (Resolved /\ arg = <<>> /\ EmptyReference(RefOf) /\ BaseOf.Opaque = <<>>) =>
        /\ NewOf = BaseOf
        /\ Bytes(NewOf) = Bytes(BaseOf)

(* C13: resolving the empty reference against a base with empty Opaque     *)
(* returns the base's scheme, userinfo, host, RawQuery and fragment and    *)
(* the path resolvePath(base path, empty); a base whose path is empty or   *)
(* in resolved form is returned unchanged, with the same serialization.    *)
C13_EmptyReference ==
    (Resolved /\ arg = <<>> /\ EmptyReference(RefOf) /\ BaseOf.Opaque = <<>>) =>
        /\ NewOf = [BaseOf EXCEPT !.Path = resolvePath(BaseOf.Path, <<>>)]
        /\ InResolvedForm(BaseOf.Path) =>
              (NewOf = BaseOf /\ Bytes(NewOf) = Bytes(BaseOf))

(* The empty reference resolved against a base with a query, a fragment    *)
(* and a path in resolved form of two segments.                            *)
C13_Witness ==
    /\ Resolved /\ arg = <<>> /\ EmptyReference(RefOf) /\ BaseOf.Opaque = <<>>
    /\ InResolvedForm(BaseOf.Path) /\ Len(BaseOf.Path) > 3
    /\ BaseOf.RawQuery # <<>> /\ BaseOf.Fragment # <<>>
    /\ NewOf = BaseOf

----------------------------------------------------------------------------
(* C14 as stated: for a reference with a scheme, every field of the result *)
(* equals the corresponding field of the reference, for every base.        *)
C14_AsStated ==
    (Resolved /\ RefOf.Scheme # <<>>) => NewOf = RefOf

(* C14: for a reference with a scheme, the result has the reference's      *)
(* scheme, opaque, userinfo, host, RawQuery and fragment, and the path     *)
(* resolvePath(reference path, empty): the reference's own path when that  *)
(* is empty or in resolved form.  Nothing of the base is in the result.    *)
C14_AbsoluteReference ==
    (Resolved /\ RefOf.Scheme # <<>>) =>
        /\ NewOf = [RefOf EXCEPT !.Path = resolvePath(RefOf.Path, <<>>)]
        /\ InResolvedForm(RefOf.Path) => NewOf = RefOf
        /\ ~HasDotSegment(NewOf.Path)

(* A reference with a scheme and a path with a ".." segment, resolved      *)
(* against a base with another scheme, a host, a query and a fragment.     *)
C14_Witness ==
    /\ Resolved /\ RefOf.Scheme # <<>>
    /\ HasDotSegment(RefOf.Path)
    /\ BaseOf.Scheme # <<>> /\ BaseOf.Scheme # RefOf.Scheme
    /\ BaseOf.Host # <<>> /\ BaseOf.RawQuery # <<>> /\ BaseOf.Fragment # <<>>
    /\ NewOf.Path # RefOf.Path
    /\ NewOf.Host = <<>> /\ NewOf.RawQuery = <<>> /\ NewOf.Fragment = <<>>

----------------------------------------------------------------------------
(* C15: ResolveReference and URL.Parse return an instance that did not     *)
(* exist before the call, so one that is neither the base nor the          *)
(* reference, and leave every field of the base and of the reference as it *)
(* was; the reference URL.Parse resolves is what Parse returns for its     *)
(* text.                                                                   *)
C15_NewInstance ==
    [][(newURL' # 0 /\ newURL = 0) =>
          /\ newURL' \notin {baseURL', refURL'}
          /\ newURL' \notin DOMAIN heap
          /\ baseURL' = baseURL
          /\ heap'[baseURL] = heap[baseURL]
          /\ IF refURL # 0
             THEN refURL' = refURL /\ heap'[refURL] = heap[refURL]
             ELSE heap'[refURL'] = Parse(arg).url]_vars

(* The instance returned is another one than the reference and than the    *)
(* base although it has the fields of the reference.                       *)
C15_Witness ==
    /\ Resolved
    /\ newURL \notin {baseURL, refURL}
    /\ NewOf = RefOf
    /\ NewOf # BaseOf

----------------------------------------------------------------------------
(* C16: no byte of the Path of a URL that Parse, ParseRequestURI or        *)
(* ResolveReference returned is in the storage of a package-level slice,   *)
(* so the package-level slices hold what their declarations gave them      *)
(* whatever the caller writes into the URLs it holds, and ParseRequestURI  *)
(* of "*" and of "/" succeeds after any such write as it does before.      *)
C16_NoSharedStorage ==
    /\ \A p \in DOMAIN heap : heap[p].Path # <<>> => store[p] = "call"
    /\ pkg = PackageBytes
    /\ (op # <<>> /\ Last(op) = "ParseRequestURI" /\ arg \in {<<42>>, <<47>>}) =>
          (err = NoError /\ newURL # 0 /\ heap[newURL].Path = arg)

----------------------------------------------------------------------------
(* The query text: its segments are the texts between the separators '&'   *)
(* and ';', a segment's key text is what stands before its first '=' and   *)
(* its value text what stands after it.                                    *)
Cuts(q) == {i \in 1..Len(q) : q[i] \in {38, 59}}

(* The n-th separator of q; the start of q for n = 0 and its end after the *)
(* last separator.                                                         *)
Bound(q, n) ==
    IF n = 0 THEN 0
    ELSE IF n > Cardinality(Cuts(q)) THEN Len(q) + 1
    ELSE CHOOSE p \in Cuts(q) : Cardinality({x \in Cuts(q) : x < p}) = n - 1

RawSegments(q) ==
    [n \in 1..(Cardinality(Cuts(q)) + 1) |->
        SubSeq(q, Bound(q, n - 1) + 1, Bound(q, n) - 1)]

NotEmpty(s) == s # <<>>
QuerySegments(q) == SelectSeq(RawSegments(q), NotEmpty)

SegKey(seg) == QueryUnescape(UpTo(seg, 61))
SegValue(seg) == QueryUnescape(After(seg, 61))
Decodes(seg) == SegKey(seg).err = NilErr /\ SegValue(seg).err = NilErr
Fails(seg) == ~Decodes(seg)
SegError(seg) == IF SegKey(seg).err # NilErr THEN SegKey(seg).err ELSE SegValue(seg).err

GoodSegments(q) == SelectSeq(QuerySegments(q), Decodes)
BadSegments(q) == SelectSeq(QuerySegments(q), Fails)

ParsedQuery == op = <<"ParseQuery">>

(* C17: ParseQuery returns a non-nil map whose keys are the decoded keys   *)
(* of the segments that decode, each with as many values as there are such *)
(* segments with that key and with the decoded value of each of them, the  *)
(* segments after a failing one included; its error is the decode error of *)
(* the leftmost failing segment, or nil when no segment fails.             *)
C17_NeverAborts ==
    ParsedQuery =>
        LET good == GoodSegments(arg)
            bad == BadSegments(arg)
        IN  /\ ~values.isNil
            /\ DOMAIN values.m = {SegKey(good[i]).b : i \in DOMAIN good}
            /\ \A k \in DOMAIN values.m :
                  Len(values.m[k])
                      = Cardinality({i \in DOMAIN good : SegKey(good[i]).b = k})
            /\ \A i \in DOMAIN good :
                  \E j \in DOMAIN values.m[SegKey(good[i]).b] :
                      values.m[SegKey(good[i]).b][j] = SegValue(good[i]).b
            /\ ret.err = IF bad = <<>> THEN NilErr ELSE SegError(bad[1])

(* A failing segment, then one that decodes, then one failing with another *)
(* error: the pair is in the map and the error is the first one.           *)
C17_Witness ==
    /\ ParsedQuery
    /\ Len(BadSegments(arg)) >= 2
    /\ SegError(BadSegments(arg)[1]) # SegError(BadSegments(arg)[2])
    /\ Fails(QuerySegments(arg)[1]) /\ Decodes(QuerySegments(arg)[2])
    /\ DOMAIN values.m # {}
    /\ ret.err = SegError(BadSegments(arg)[1])

----------------------------------------------------------------------------
(* The decoded values, in their order in q, of the segments of q that      *)
(* decode and have the decoded key k.                                      *)
ValuesFor(q, k) ==
    LET mine == SelectSeq(GoodSegments(q), LAMBDA seg : SegKey(seg).b = k)
    IN  [i \in 1..Len(mine) |-> SegValue(mine[i]).b]

(* C18: ParseQuery splits the query at every '&' and every ';', ignores    *)
(* empty segments, splits a segment at its first '=' (no '=': the key with *)
(* an empty value), decodes key and value on their own as query            *)
(* components, and gives every key the values of its segments in the order *)
(* they have in the query.                                                 *)
C18_SplitsAndOrders ==
    ParsedQuery =>
        /\ \A i \in DOMAIN GoodSegments(arg) :
              SegKey(GoodSegments(arg)[i]).b \in DOMAIN values.m
        /\ \A k \in DOMAIN values.m :
              /\ values.m[k] = ValuesFor(arg, k)
              /\ values.m[k] # <<>>

(* A query with both separators, an empty segment and a segment without    *)
(* '=': its key has two different values, the second one empty.            *)
C18_Witness ==
    /\ ParsedQuery
    /\ Has(arg, 38) /\ Has(arg, 59)
    /\ \E n \in DOMAIN RawSegments(arg) : RawSegments(arg)[n] = <<>>
    /\ \E k \in DOMAIN values.m :
          /\ Len(values.m[k]) = 2
          /\ values.m[k][1] # <<>>
          /\ values.m[k][2] = <<>>
    /\ ret.err = NilErr

----------------------------------------------------------------------------
(* The byte order of keys: a before b when a is a proper prefix of b or    *)
(* has the smaller byte where they first differ.                           *)
DiffAt(a, b) ==
    CHOOSE i \in 1..(Len(a) + 1) :
        /\ i > Len(a) \/ i > Len(b) \/ a[i] # b[i]
        /\ \A j \in 1..(i - 1) : j <= Len(b) /\ a[j] = b[j]

Precedes(a, b) ==
    /\ a # b
    /\ DiffAt(a, b) > Len(a) \/ (DiffAt(a, b) <= Len(b) /\ a[DiffAt(a, b)] < b[DiffAt(a, b)])

(* The n-th key of the map in byte order.                                  *)
KeyAt(w, n) ==
    CHOOSE k \in DOMAIN w.m : Cardinality({x \in DOMAIN w.m : Precedes(x, k)}) = n - 1

PairsOfKey(k, vs) ==
    [j \in 1..Len(vs) |-> QueryEscape(k) \o <<61>> \o QueryEscape(vs[j])]

RECURSIVE PairsFrom(_, _)
PairsFrom(w, n) ==
    IF n > Cardinality(DOMAIN w.m) THEN <<>>
    ELSE PairsOfKey(KeyAt(w, n), w.m[KeyAt(w, n)]) \o PairsFrom(w, n + 1)

RECURSIVE JoinedByAmp(_)
JoinedByAmp(ps) ==
    IF ps = <<>> THEN <<>>
    ELSE IF Len(ps) = 1 THEN ps[1]
    ELSE ps[1] \o <<38>> \o JoinedByAmp(Tail(ps))

Encoded == op # <<>> /\ Last(op) = "Encode"

(* C19: Encode returns the pairs 'key=value', key and value query-escaped, *)
(* of the keys in ascending byte order and of each key's values in stored  *)
(* order, joined by '&' with none at either end; nothing for a nil or an   *)
(* empty map, and nothing for a key without values.                        *)
C19_EncodeSorted ==
    Encoded =>
        /\ out = IF values.isNil THEN <<>> ELSE JoinedByAmp(PairsFrom(values, 1))
        /\ out # <<>> => (out[1] # 38 /\ out[Len(out)] # 38)
        /\ (values.isNil \/ \A k \in DOMAIN values.m : values.m[k] = <<>>) => out = <<>>

(* Encode of a map with a key without values, a key with one value and a   *)
(* key with two, one of them a space.                                      *)
C19_Witness ==
    /\ Encoded
    /\ \E k \in DOMAIN values.m : values.m[k] = <<>>
    /\ \E k \in DOMAIN values.m : Len(values.m[k]) = 1
    /\ \E k \in DOMAIN values.m : Len(values.m[k]) = 2 /\ values.m[k][1] = <<32>>
    /\ Cardinality({i \in 1..Len(out) : out[i] = 38}) = 2
    /\ Has(out, 43)

----------------------------------------------------------------------------
(* The sequence stored for key k: none when k is absent or the map is nil. *)
StoredFor(w, k) == IF ~w.isNil /\ k \in DOMAIN w.m THEN w.m[k] ELSE <<>>

(* C20: Set(k, v) makes the sequence of k exactly [v], Add(k, v) appends v *)
(* at its end, Del(k) removes k, each leaving the sequence of every other  *)
(* key (keys differing in case included) as it was; Get(k) returns the     *)
(* first element of the sequence stored for k, or the empty byte string    *)
(* when k is absent or the map is nil, and changes nothing.                *)
C20_Accessors ==
    [][/\ op' = Append(op, "Set") =>
             /\ StoredFor(values', withKey') = <<withValue'>>
             /\ \A k \in (DOMAIN values.m \cup DOMAIN values'.m) \ {withKey'} :
                   StoredFor(values', k) = StoredFor(values, k)
       /\ op' = Append(op, "Add") =>
             /\ StoredFor(values', withKey')
                   = Append(StoredFor(values, withKey'), withValue')
             /\ \A k \in (DOMAIN values.m \cup DOMAIN values'.m) \ {withKey'} :
                   StoredFor(values', k) = StoredFor(values, k)
       /\ op' = Append(op, "Del") =>
             /\ withKey' \notin DOMAIN values'.m
             /\ \A k \in (DOMAIN values.m \cup DOMAIN values'.m) \ {withKey'} :
                   StoredFor(values', k) = StoredFor(values, k)
       /\ op' = Append(op, "Get") =>
             /\ out' = IF StoredFor(values, withKey') = <<>> THEN <<>>
                       ELSE StoredFor(values, withKey')[1]
             /\ values' = values]_vars

(* After Set, Add and Add on one key, Get returns the value Set stored,    *)
(* the first of three, while the key that differs in case has its own.     *)
C20_Witness ==
    /\ op = <<"Set", "Add", "Add", "Get">>
    /\ Len(StoredFor(values, withKey)) = 3
    /\ StoredFor(values, withKey)[1] # StoredFor(values, withKey)[3]
    /\ out = StoredFor(values, withKey)[1]
    /\ withKey = <<97>>
    /\ StoredFor(values, <<65>>) # <<>>
    /\ StoredFor(values, <<65>>)[1] # out

----------------------------------------------------------------------------
(* The bytes no encoding escapes: letters, digits, '-', '_', '.', '~'.     *)
IsUnreserved(c) == IsAlpha(c) \/ c \in 48..57 \/ c \in {45, 46, 95, 126}

(* s with every '+' replaced by a space.                                   *)
PlusAsSpace(s) == [i \in 1..Len(s) |-> IF s[i] = 43 THEN 32 ELSE s[i]]

(* QueryUnescape(arg) has returned and QueryEscape got what it returned.   *)
DecodedThenEncoded ==
    /\ op = <<"unescape", "escape">>
    /\ mode = encodeQueryComponent

(* C21, as stated: for every byte string s without '%', QueryUnescape(s)   *)
(* succeeds and QueryEscape(QueryUnescape(s)) is s.                        *)
C21_AsStated ==
    (DecodedThenEncoded /\ ~Has(arg, 37)) => (ret.err = NilErr /\ out = arg)

(* C21: for every byte string s without '%', QueryUnescape(s) succeeds and *)
(* returns s with each '+' replaced by a space, and                        *)
(* QueryEscape(QueryUnescape(s)) is s exactly when every byte of s is      *)
(* unreserved or '+'.                                                      *)
C21_UnescapeThenEscape ==
    (DecodedThenEncoded /\ ~Has(arg, 37)) =>
        /\ ret.err = NilErr
        /\ ret.b = PlusAsSpace(arg)
        /\ out = arg <=> \A i \in 1..Len(arg) : IsUnreserved(arg[i]) \/ arg[i] = 43

(* A text of unreserved bytes and a '+' came back as it was, through the   *)
(* space QueryUnescape made of the '+'.                                    *)
C21_Witness ==
    /\ DecodedThenEncoded
    /\ ~Has(arg, 37) /\ Has(arg, 43) /\ Has(arg, 50)
    /\ Has(ret.b, 32)
    /\ out = arg

----------------------------------------------------------------------------
(* The reference encoding, byte by byte.                                   *)
IsReserved(c) == c \in {36, 38, 43, 44, 47, 58, 59, 61, 63, 64}

(* The reserved bytes encoding m leaves as they are.                       *)
LeftLiteral(c, m) ==
    /\ IsReserved(c)
    /\ \/ m = encodePath /\ c # 63
       \/ m = encodeUserPassword /\ c \notin {64, 47, 63, 58}
       \/ m = encodeFragment

(* The digit of n in 0..15, in upper case.                                 *)
HexDigit(n) == IF n < 10 THEN 48 + n ELSE 55 + n

EncodedByte(c, m) ==
    IF IsUnreserved(c) \/ LeftLiteral(c, m) THEN <<c>>
    ELSE IF c = 32 /\ m = encodeQueryComponent THEN <<43>>
    ELSE <<37, HexDigit(c \div 16), HexDigit(c % 16)>>

RECURSIVE ReferenceEncoding(_, _)
ReferenceEncoding(s, m) ==
    IF s = <<>> THEN <<>>
    ELSE EncodedByte(Head(s), m) \o ReferenceEncoding(Tail(s), m)

(* C22: escape(s, m) is the reference encoding of s: an unreserved byte    *)
(* and a reserved byte that m leaves literal are copied, a space in the    *)
(* query component encoding becomes '+', every other byte becomes '%' and  *)
(* its two upper-case hex digits.                                          *)
C22_EscapeByteWise ==
    (op # <<>> /\ op[1] \in {"escape", "QueryEscape"}) =>
        out = ReferenceEncoding(arg, mode)

(* escape for userinfo has copied a '~' and a '+' and encoded a ':'.       *)
C22_Witness ==
    /\ op = <<"escape">>
    /\ mode = encodeUserPassword
    /\ Has(arg, 126) /\ Has(arg, 43) /\ Has(arg, 58)
    /\ out # arg
    /\ Len(out) = 5

----------------------------------------------------------------------------
(* 1-based position of the leftmost '%' of s that is not followed by two   *)
(* hex digits.                                                             *)
MalformedAt(s, i) ==
    /\ s[i] = 37
    /\ (i + 2 > Len(s) \/ ~IsHexDigit(s[i + 1]) \/ ~IsHexDigit(s[i + 2]))

FirstMalformed(s) ==
    CHOOSE i \in 1..Len(s) :
        MalformedAt(s, i) /\ \A j \in 1..(i - 1) : ~MalformedAt(s, j)

(* At most the first n bytes of s from position i on.                      *)
UpToFrom(s, i, n) == SubSeq(s, i, IF i + n - 1 < Len(s) THEN i + n - 1 ELSE Len(s))

(* C23: unescape(s, m) fails exactly when s holds a '%' that is not        *)
(* followed by two hex digits of either case; it then returns empty bytes  *)
(* and an EscapeError that carries s from the leftmost such '%' on, cut    *)
(* to 3 bytes at most.                                                     *)
C23_UnescapeFailure ==
    op = <<"unescape">> =>
        /\ ret.err # NilErr <=> Malformed(arg)
        /\ Malformed(arg) =>
              /\ ret.b = <<>>
              /\ ret.err.kind = "EscapeError"
              /\ ret.err.s = UpToFrom(arg, FirstMalformed(arg), 3)

(* unescape has failed at a '%' that follows a well-formed sequence with a *)
(* lower-case digit, and the error carries the 3 bytes from that '%' on.   *)
C23_Witness ==
    /\ op = <<"unescape">>
    /\ Len(arg) = 6
    /\ SubSeq(arg, 1, 3) = <<37, 50, 99>>
    /\ arg[4] = 37
    /\ ret.b = <<>>
    /\ ret.err.kind = "EscapeError"
    /\ Len(ret.err.s) = 3

----------------------------------------------------------------------------
(* Paths as sequences of segments: the texts between the '/' of a path.    *)
RECURSIVE PathSegments(_)
PathSegments(p) ==
    IF ~Has(p, 47) THEN <<p>>
    ELSE <<UpTo(p, 47)>> \o PathSegments(After(p, 47))

(* The path the reference path r is resolved on: the base path b for an    *)
(* empty r, r itself when it begins with '/', else b up to its last '/'    *)
(* followed by r.                                                          *)
Merged(b, r) ==
    IF r = <<>> THEN b
    ELSE IF r[1] = 47 THEN r
    ELSE SubSeq(b, 1, LastAt(b, 47)) \o r

IsDot(s) == s = <<46>>
IsDotDot(s) == s = <<46, 46>>
Ordinary(s) == ~IsDot(s) /\ ~IsDotDot(s)

(* Segment i of src is kept: it is ordinary and at no later segment j have *)
(* more ".." than ordinary segments followed it.                           *)
Survives(src, i) ==
    /\ Ordinary(src[i])
    /\ \A j \in (i + 1)..Len(src) :
          Cardinality({k \in (i + 1)..j : IsDotDot(src[k])})
              <= Cardinality({k \in (i + 1)..j : Ordinary(src[k])})

RECURSIVE KeptFrom(_, _)
KeptFrom(src, i) ==
    IF i > Len(src) THEN <<>>
    ELSE (IF Survives(src, i) THEN <<src[i]>> ELSE <<>>) \o KeptFrom(src, i + 1)

KeptSegments(src) == KeptFrom(src, 1)

(* The kept segments, one empty segment more when the last segment of src  *)
(* is "." or "..".                                                         *)
Closed(src) ==
    IF Ordinary(src[Len(src)]) THEN KeptSegments(src)
    ELSE Append(KeptSegments(src), <<>>)

(* ss without the empty segments it begins with; one empty segment when    *)
(* nothing else is left.                                                   *)
RECURSIVE WithoutLeadingEmpty(_)
WithoutLeadingEmpty(ss) ==
    IF ss = <<>> THEN << <<>> >>
    ELSE IF ss[1] = <<>> THEN WithoutLeadingEmpty(Tail(ss))
    ELSE ss

ResultSegments(src) == WithoutLeadingEmpty(Closed(src))

SegmentSet(ss) == {ss[i] : i \in DOMAIN ss}

(* resolvePath(base path, arg) has returned.                               *)
PathResolved == op = <<"resolvePath">>
MergedPath == Merged(heap[baseURL].Path, arg)

(* C24, as stated: for every base path and reference path, empty ones      *)
(* included, the result of resolvePath begins with exactly one '/'.        *)
C24_AsStated ==
    PathResolved =>
        /\ StartsWith(out, <<47>>)
        /\ ~StartsWith(out, <<47, 47>>)

(* C24: resolvePath returns a result for every base path and reference     *)
(* path: the empty path when both are empty, and otherwise a path that     *)
(* begins with exactly one '/', never with "//", and whose segments after  *)
(* that '/' are segments of the merged path, or one empty segment.         *)
C24_LeadingSlash ==
    PathResolved =>
        /\ out = <<>> <=> (heap[baseURL].Path = <<>> /\ arg = <<>>)
        /\ out # <<>> =>
              /\ StartsWith(out, <<47>>)
              /\ ~StartsWith(out, <<47, 47>>)
              /\ \E src \in {PathSegments(MergedPath)} :
                    \A s \in SegmentSet(PathSegments(Tail(out))) :
                        s = <<>> \/ s \in SegmentSet(src)

(* A reference path that begins with "//" gave a path with one '/' before  *)
(* its first segment.                                                      *)
C24_Witness ==
    /\ PathResolved
    /\ StartsWith(arg, <<47, 47, 103, 97>>)
    /\ StartsWith(out, <<47, 103, 97>>)

(* C25: the result of resolvePath has no segment "." or "..": its segments *)
(* are the ordinary segments of the merged path that no later ".." took    *)
(* away, a ".." with nothing left to take being ignored, and the result    *)
(* ends with '/' whenever the last segment of the merged path is "." or    *)
(* "..".                                                                   *)
C25_DotSegments ==
    PathResolved =>
        /\ ~HasDotSegment(out)
        /\ MergedPath # <<>> =>
              /\ out # <<>>
              /\ \E src \in {PathSegments(MergedPath)} :
                    /\ PathSegments(Tail(out)) = ResultSegments(src)
                    /\ ~Ordinary(Last(src)) => Last(out) = 47

(* "../.." on a base path two segments below "/b/c/" took away two         *)
(* segments of the base path, and the result ends with '/'.                *)
C25_Witness ==
    /\ PathResolved
    /\ arg = <<46, 46, 47, 46, 46>>
    /\ StartsWith(heap[baseURL].Path, <<47, 98, 47, 99, 47>>)
    /\ Len(heap[baseURL].Path) > 5
    /\ out = <<47, 98, 47>>

----------------------------------------------------------------------------
(* The map that was encoded and the map ParseQuery made of the text.       *)
EncodedThenParsed == op = <<"Encode", "ParseQuery">>
GivenMap == prev.values.m
ParsedMap == values.m

(* C26: for every map in which no key has an empty sequence of values,     *)
(* ParseQuery(Encode(v)) returns no error and a map with the keys of v     *)
(* and, for each key, the values of v in their order.                      *)
C26_ParseInvertsEncode ==
    (EncodedThenParsed /\ \A k \in DOMAIN GivenMap : GivenMap[k] # <<>>) =>
        /\ ret.err = NilErr
        /\ ~values.isNil
        /\ DOMAIN ParsedMap = DOMAIN GivenMap
        /\ \A k \in DOMAIN GivenMap : ParsedMap[k] = GivenMap[k]

(* A map of the empty key and the key "a=", one of them with the values    *)
(* "%2B" and "a=1&b;", came back from the text Encode wrote.               *)
C26_Witness ==
    /\ EncodedThenParsed
    /\ DOMAIN GivenMap = {<<>>, <<97, 61>>}
    /\ GivenMap[<<97, 61>>] = << <<37, 50, 66>>, <<97, 61, 49, 38, 98, 59>> >>
    /\ GivenMap[<<>>] = << <<32>>, <<43>> >>
    /\ ParsedMap = GivenMap
    /\ Has(out, 37) /\ Has(out, 43)

====
